---- MODULE Spec2Model ----
(***************************************************************************)
(* Model of the game feature engine of NBA-Performance-Prediction:         *)
(* src/src/data_processing/game_features.py, class GameFeatureEngineer,    *)
(* with the cleaning step before it (cleaning.py, class DataCleaner) and   *)
(* the time-based split after it (dataset_builder.py, DatasetBuilder).     *)
(*                                                                         *)
(* A game DataFrame is a sequence of rows.  The index label of a row is    *)
(* its position (a default RangeIndex, as produced by pd.DataFrame(...)    *)
(* and by reset_index(drop=True)), so df.loc[idx] is df[idx] and           *)
(* sorted(index labels) is the row order.  Dates are whole days, so        *)
(* (a - b).days is a - b.  Float results (win_pct, averages) are exact     *)
(* fractions <<numerator, denominator>> in lowest terms: two results are   *)
(* equal exactly when the quotients are equal.                             *)
(***************************************************************************)
EXTENDS Integers, Sequences, FiniteSets, TLC

\* ---------------------------------------------------------------- bounds
MaxGames == 3
MaxQueryGames == 2
MaxDay == 3
MaxWindow == 2

Teams == {1, 2, 3}
\* <<home_team_score, visitor_team_score>>: a home win, a visitor win, a tie
ScorePairs == {<<2, 1>>, <<1, 2>>, <<1, 1>>}
Days == 1..MaxDay

\* ------------------------------------------------------- program constants
\* "return 999  # No previous game"
NO_PREVIOUS_GAME == 999
\* n_games: int = 10, and n_games=10 in create_game_features
DEFAULT_N_GAMES == 10

\* The window sizes of the standalone calls: the small ones and the default.
Windows == (0..MaxWindow) \cup {DEFAULT_N_GAMES}

\* ------------------------------------------------------------- arithmetic
Abs(x) == IF x < 0 THEN -x ELSE x

RECURSIVE GCD(_, _)
GCD(a, b) == IF b = 0 THEN a ELSE GCD(b, a % b)

\* The value n / d (d > 0) of a Python true division or of np.mean.
Frac(n, d) ==
    LET g == GCD(Abs(n), d) IN <<n \div g, d \div g>>

\* The literal 0.0
ZERO == Frac(0, 1)

RECURSIVE SumSeq(_)
SumSeq(s) == IF s = <<>> THEN 0 ELSE Head(s) + SumSeq(Tail(s))

\* ------------------------------------------------- binary floating point
\* Python floats are IEEE 754 binary64 numbers: every arithmetic result is the
\* exact result rounded to 53 significant bits, ties to even.  A non-negative
\* float is held as the exact integer x * 2^60, written in NLimbs digits of
\* base 2^15, least significant first; the means of the form statistics and
\* the ratios and products of the split functions are 0 or lie between 2^-8
\* and 2^14, where every float is such an integer.  A float of either sign is
\* a record [negative, magnitude]; 0.0 is not negative.
LimbBits == 15
Limb == 32768
NLimbs == 10
FracLimbs == 4
Mantissa == 53


\* The NLimbs digits f[1], f[2], ... as a tuple.
Digits(f) == <<f[1], f[2], f[3], f[4], f[5], f[6], f[7], f[8], f[9], f[10]>>

BigZero == Digits([k \in 1..NLimbs |-> 0])

BigAdd(a, b) ==
    LET carry[k \in 0..NLimbs] ==
            IF k = 0 THEN 0 ELSE (a[k] + b[k] + carry[k - 1]) \div Limb
    IN  Digits([k \in 1..NLimbs |-> (a[k] + b[k] + carry[k - 1]) % Limb])

\* a - b for a >= b
BigSub(a, b) ==
    LET borrow[k \in 0..NLimbs] ==
            IF k = 0 THEN 0
            ELSE IF a[k] - b[k] - borrow[k - 1] < 0 THEN 1 ELSE 0
    IN  Digits([k \in 1..NLimbs |-> (a[k] - b[k] - borrow[k - 1] + Limb) % Limb])

BigLess(a, b) ==
    \E k \in 1..NLimbs : a[k] < b[k] /\ \A m \in (k + 1)..NLimbs : a[m] = b[m]

\* a * n for 0 <= n < 2^15
BigMulSmall(a, n) ==
    LET carry[k \in 0..NLimbs] ==
            IF k = 0 THEN 0 ELSE (a[k] * n + carry[k - 1]) \div Limb
    IN  Digits([k \in 1..NLimbs |-> (a[k] * n + carry[k - 1]) % Limb])

\* a * 2^s and floor(a / 2^s)
ShiftLeft(a, s) ==
    LET limbs == s \div LimbBits
        bits  == s % LimbBits
    IN  Digits([k \in 1..NLimbs |->
            (IF k - limbs >= 1
             THEN (a[k - limbs] % (2 ^ (LimbBits - bits))) * (2 ^ bits) ELSE 0)
            + (IF k - limbs - 1 >= 1
               THEN a[k - limbs - 1] \div (2 ^ (LimbBits - bits)) ELSE 0)])

ShiftRight(a, s) ==
    LET limbs == s \div LimbBits
        bits  == s % LimbBits
    IN  Digits([k \in 1..NLimbs |->
            (IF k + limbs <= NLimbs THEN a[k + limbs] \div (2 ^ bits) ELSE 0)
            + (IF k + limbs + 1 <= NLimbs
               THEN (a[k + limbs + 1] % (2 ^ bits)) * (2 ^ (LimbBits - bits)) ELSE 0)])

\* The number of significant bits of a; 0 for zero.
BitLength(a) ==
    IF a = BigZero THEN 0
    ELSE LET top == CHOOSE k \in 1..NLimbs :
                        a[k] # 0 /\ \A m \in (k + 1)..NLimbs : a[m] = 0
             len == CHOOSE b \in 1..LimbBits : (2 ^ (b - 1)) <= a[top] /\ a[top] < (2 ^ b)
         IN  LimbBits * (top - 1) + len

\* The one-digit number d.
BigDigit(d) == Digits([k \in 1..NLimbs |-> IF k = 1 THEN d ELSE 0])

\* The exact value a rounded to 53 significant bits, ties to even.  With s
\* the number of low bits to drop and kept the bits above them, rest is the
\* value of the dropped bits and half is 2^(s-1).
RoundToFloat(a) ==
    LET RoundUp(kept, rest, half) ==
            BigLess(half, rest) \/ (rest = half /\ kept[1] % 2 = 1)
        Rounded(s, kept) ==
            ShiftLeft(IF RoundUp(kept, BigSub(a, ShiftLeft(kept, s)),
                                 ShiftLeft(BigDigit(1), s - 1))
                      THEN BigAdd(kept, BigDigit(1)) ELSE kept, s)
        Drop(s) == Rounded(s, ShiftRight(a, s))
    IN  IF BitLength(a) <= Mantissa THEN a ELSE Drop(BitLength(a) - Mantissa)

\* float(n) for an integer 0 <= n < 2^15
FloatOfInt(n) == Digits([k \in 1..NLimbs |-> IF k = FracLimbs + 1 THEN n ELSE 0])

\* x + y
FloatAdd(x, y) == RoundToFloat(BigAdd(x, y))

\* int(n * x) for an integer n and a float x: the product rounded to a
\* float, then truncated; also the floor(train_size * n_samples) of
\* train_test_split.
IntOfProduct(n, x) ==
    LET product == RoundToFloat(BigMulSmall(x, n))
    IN  product[FracLimbs + 1] + product[FracLimbs + 2] * Limb

\* x / y for y > 0 and x / y >= 2^-8: floor(x * 2^64 / y) by long division in
\* base 2^15 with the divisor shifted so that its top digit is at least 2^14
\* (the quotient digit is then at most 2 below the estimate made from the
\* top digits), the remainder kept as a sticky bit below the quotient, the
\* result rounded, in units of 2^-60.
FloatDiv(x, y) ==
    LET norm == (LimbBits - (BitLength(y) % LimbBits)) % LimbBits
        den  == ShiftLeft(y, norm)
        top  == BitLength(den) \div LimbBits
        num  == ShiftLeft(x, 64 + norm)
        \* the quotient digit estimated from the top digits of the remainder r2
        Estimate(r2) ==
            LET raw == (r2[top + 1] * Limb + r2[top]) \div den[top]
            IN  IF raw < Limb - 1 THEN raw ELSE Limb - 1
        QuotDigit(r2, est) ==
            CHOOSE c \in (est - 2)..est :
                /\ c >= 0
                /\ ~BigLess(r2, BigMulSmall(den, c))
                /\ BigLess(r2, BigMulSmall(den, c + 1))
        Down(prev, r2, d) ==
            [quot |-> BigAdd(ShiftLeft(prev.quot, LimbBits), BigDigit(d)),
             rem  |-> BigSub(r2, BigMulSmall(den, d))]
        Divide(prev, r2) == Down(prev, r2, QuotDigit(r2, Estimate(r2)))
        \* one more digit of the dividend brought down
        Step(prev, digit) ==
            IF prev.rem = BigZero /\ digit = 0
            THEN [quot |-> ShiftLeft(prev.quot, LimbBits), rem |-> BigZero]
            ELSE Divide(prev, BigAdd(ShiftLeft(prev.rem, LimbBits), BigDigit(digit)))
        D[j \in 0..NLimbs] ==
            IF j = 0 THEN [quot |-> BigZero, rem |-> BigZero]
            ELSE Step(D[j - 1], num[NLimbs - j + 1])
        Sticky(last) ==
            BigAdd(ShiftLeft(last.quot, 1),
                   IF last.rem = BigZero THEN BigZero ELSE BigDigit(1))
    IN  ShiftRight(RoundToFloat(Sticky(D[NLimbs])), 5)

\* x - y for two floats of either sign: the exact difference, rounded.
FloatSub(x, y) ==
    LET Signed(negative, magnitude) ==
            [negative |-> negative /\ magnitude # BigZero, magnitude |-> magnitude]
    IN  IF x.negative # y.negative
        THEN Signed(x.negative, RoundToFloat(BigAdd(x.magnitude, y.magnitude)))
        ELSE IF BigLess(x.magnitude, y.magnitude)
             THEN Signed(~x.negative, RoundToFloat(BigSub(y.magnitude, x.magnitude)))
             ELSE Signed(x.negative, RoundToFloat(BigSub(x.magnitude, y.magnitude)))

\* np.mean of n integers whose sum is total, 0 < n < 2^8 and |total| < 2^15:
\* the float nearest to total / n.  floor(|total| * 2^64 / n) by short
\* division, most significant digit first, the remainder kept as a sticky bit
\* below the quotient, the result rounded, in units of 2^-60.
Mean(total, n) ==
    LET num == ShiftLeft(BigDigit(Abs(total)), 64)
        rem[k \in 1..(NLimbs + 1)] ==
            IF k = NLimbs + 1 THEN 0 ELSE (rem[k + 1] * Limb + num[k]) % n
        quot == Digits([k \in 1..NLimbs |-> (rem[k + 1] * Limb + num[k]) \div n])
        sticky == IF rem[1] = 0 THEN BigZero ELSE BigDigit(1)
    IN  [negative  |-> total < 0,
         magnitude |-> ShiftRight(RoundToFloat(BigAdd(ShiftLeft(quot, 1), sticky)), 5)]

\* np.mean(points_scored) - np.mean(points_allowed) for the small sums of the
\* tables built here, computed once: PointDifferentialTable[n][scored + 1][allowed + 1].
PointDifferentialTable ==
    [n \in 1..MaxGames |->
        [scored \in 1..(2 * MaxGames + 1) |->
            [allowed \in 1..(2 * MaxGames + 1) |->
                FloatSub(Mean(scored - 1, n), Mean(allowed - 1, n))]]]

\* np.mean(points_scored) - np.mean(points_allowed): the difference of the two
\* rounded means, which is not always the float nearest to
\* (scored - allowed) / n.
PointDifferential(scored, allowed, n) ==
    IF n <= MaxGames /\ scored \in 0..(2 * MaxGames) /\ allowed \in 0..(2 * MaxGames)
    THEN PointDifferentialTable[n][scored + 1][allowed + 1]
    ELSE FloatSub(Mean(scored, n), Mean(allowed, n))

\* The float written p/100 in decimal (0.7 for 70) is the float nearest to
\* p/100: the floats of the whole percents, computed once.
RatioTable == {<<p, FloatDiv(FloatOfInt(p), FloatOfInt(100))>> : p \in 0..100}

\* float("0.15") for p = 15: the argument as the function receives it.
FloatRatio(p) == (CHOOSE entry \in RatioTable : entry[1] = p)[2]

\* ------------------------------------------------------ DataFrame helpers
\* df[mask].index.tolist(): the positions of the rows satisfying P, ascending.
RowsWhere(df, P(_)) ==
    LET F[i \in 0..Len(df)] ==
            IF i = 0 THEN <<>>
            ELSE IF P(df[i]) THEN Append(F[i - 1], i) ELSE F[i - 1]
    IN  F[Len(df)]

\* [x for x in s if P(x)] over a list of positions.
Filter(s, P(_)) == SelectSeq(s, P)

\* DataFrame.tail(n) for n >= 0: the last n rows, none when n = 0.
PandasTail(s, n) ==
    IF n >= Len(s) THEN s ELSE SubSeq(s, Len(s) - n + 1, Len(s))

\* The Python slice s[-n:] for n >= 0: the last n items, but the WHOLE list
\* when n = 0, because -0 is 0 and s[0:] is s.
PySliceLast(s, n) ==
    IF n = 0 \/ n >= Len(s) THEN s ELSE SubSeq(s, Len(s) - n + 1, Len(s))

Reverse(s) == [k \in 1..Len(s) |-> s[Len(s) + 1 - k]]

Count(s, P(_)) == Len(SelectSeq(s, P))

PlaysIn(r, team_id) == r.home_team_id = team_id \/ r.visitor_team_id = team_id

\* ---------------------------------------------------------------- results
\* The dict returned when there is no game: games_played 0 and 0.0 everywhere.
EmptyForm ==
    [games_played |-> 0, win_pct |-> ZERO, avg_points_scored |-> ZERO,
     avg_points_allowed |-> ZERO,
     avg_point_differential |-> [negative |-> FALSE, magnitude |-> BigZero]]

EmptyH2H ==
    [h2h_games |-> 0, team1_wins |-> 0, team2_wins |-> 0, team1_win_pct |-> ZERO]

\* The team's own score in a row: the home score when it is the home team,
\* the visitor score otherwise (is_away = ~is_home).
TeamScore(r, team_id) ==
    IF r.home_team_id = team_id THEN r.home_team_score ELSE r.visitor_team_score

OppScore(r, team_id) ==
    IF r.home_team_id = team_id THEN r.visitor_team_score ELSE r.home_team_score

\* Mutant: ">=" counts a tied game as a win.
Mutant_WonGame_ties(r, team_id) == TeamScore(r, team_id) >= OppScore(r, team_id)

\* wins = (team_scores > opp_scores).sum()  /  if ts > os
WonGame(r, team_id) == TeamScore(r, team_id) > OppScore(r, team_id)

\* The form dict computed from the selected rows (a non-empty list of positions).
\* win_pct and the two means are single divisions, held as the fraction whose
\* nearest float they are; avg_point_differential is the float difference of
\* the two means.
FormStats(df, games, team_id) ==
    LET n        == Len(games)
        scored   == SumSeq([k \in 1..n |-> TeamScore(df[games[k]], team_id)])
        allowed  == SumSeq([k \in 1..n |-> OppScore(df[games[k]], team_id)])
        wins     == Count(games, LAMBDA g : WonGame(df[g], team_id))
    IN  [games_played |-> n,
         win_pct |-> Frac(wins, n),
         avg_points_scored |-> Frac(scored, n),
         avg_points_allowed |-> Frac(allowed, n),
         avg_point_differential |-> PointDifferential(scored, allowed, n)]

\* ---------------------------------------------------- public aggregators
\* Mutant: the date filter written "<=" counts the games of the cutoff day.
Mutant_team_form_leaky(df, team_id, date, n_games) ==
    LET team_games ==
            PandasTail(RowsWhere(df, LAMBDA r : PlaysIn(r, team_id) /\ r.date <= date),
                       n_games)
    IN  IF team_games = <<>> THEN EmptyForm ELSE FormStats(df, team_games, team_id)

\* calculate_team_form: df[(home == team | visitor == team) & (date < date)].tail(n)
calculate_team_form(df, team_id, date, n_games) ==
    LET team_games ==
            PandasTail(RowsWhere(df, LAMBDA r : PlaysIn(r, team_id) /\ r.date < date),
                       n_games)
    IN  IF team_games = <<>> THEN EmptyForm ELSE FormStats(df, team_games, team_id)

\* home_won = home_team_score > visitor_team_score
HomeWon(r) == r.home_team_score > r.visitor_team_score

\* (team1_home & home_won) | (team1_away & ~home_won): a tie counts for the
\* side that is NOT home.
Team1WonH2H(r, team1_id) ==
    \/ (r.home_team_id = team1_id /\ HomeWon(r))
    \/ (r.home_team_id # team1_id /\ ~HomeWon(r))

H2HStats(df, games, team1_id) ==
    LET n          == Len(games)
        team1_wins == Count(games, LAMBDA g : Team1WonH2H(df[g], team1_id))
    IN  [h2h_games |-> n, team1_wins |-> team1_wins, team2_wins |-> n - team1_wins,
         team1_win_pct |-> Frac(team1_wins, n)]

calculate_head_to_head(df, team1_id, team2_id, before_date, n_games) ==
    LET h2h_games ==
            PandasTail(
                RowsWhere(df, LAMBDA r :
                    /\ \/ (r.home_team_id = team1_id /\ r.visitor_team_id = team2_id)
                       \/ (r.home_team_id = team2_id /\ r.visitor_team_id = team1_id)
                    /\ r.date < before_date),
                n_games)
    IN  IF h2h_games = <<>> THEN EmptyH2H ELSE H2HStats(df, h2h_games, team1_id)

\* prev_games["date"].max()
MaxDate(df, games) ==
    CHOOSE d \in {df[games[k]].date : k \in 1..Len(games)} :
        \A k \in 1..Len(games) : df[games[k]].date <= d

calculate_rest_days(df, team_id, game_date) ==
    LET prev_games == RowsWhere(df, LAMBDA r : PlaysIn(r, team_id) /\ r.date < game_date)
    IN  IF prev_games = <<>> THEN NO_PREVIOUS_GAME
        ELSE game_date - MaxDate(df, prev_games)

\* The streak loop: count the leading run of results equal to the first one,
\* +1 per game when it is a win, -1 per game otherwise.
RECURSIVE LeadingRun(_, _)
LeadingRun(results, first_result) ==
    IF results = <<>> \/ Head(results) # first_result THEN 0
    ELSE 1 + LeadingRun(Tail(results), first_result)

StreakOf(results) ==
    IF results = <<>> THEN 0
    ELSE IF results[1] THEN LeadingRun(results, TRUE)
         ELSE -LeadingRun(results, FALSE)

\* Mutant: the date filter written "<=" counts the game of the cutoff day.
Mutant_win_streak_leaky(df, team_id, before_date) ==
    LET team_games ==
            RowsWhere(df, LAMBDA r : PlaysIn(r, team_id) /\ r.date <= before_date)
        rev == Reverse(team_games)
    IN  IF team_games = <<>> THEN {0}
        ELSE {StreakOf([k \in 1..Len(rev) |-> WonGame(df[rev[k]], team_id)])}

\* sort_values("date", ascending=False) with the default kind="quicksort":
\* the rows come out in non-increasing date order, and the relative order of
\* rows that share a date is whatever the sort of the build produces.
DescendingDateOrders(df, games) ==
    LET n == Len(games)
        elems == {games[k] : k \in 1..n}
    IN  {p \in [1..n -> elems] :
            /\ \A a, b \in 1..n : a # b => p[a] # p[b]
            /\ \A a \in 1..n : a < n => df[p[a]].date >= df[p[a + 1]].date}

\* calculate_win_streak: the set of values the call can return.
calculate_win_streak(df, team_id, before_date) ==
    LET team_games ==
            RowsWhere(df, LAMBDA r : PlaysIn(r, team_id) /\ r.date < before_date)
    IN  IF team_games = <<>> THEN {0}
        ELSE {StreakOf([k \in 1..Len(p) |-> WonGame(df[p[k]], team_id)]) :
                 p \in DescendingDateOrders(df, team_games)}

\* home_wins / len(home_games) if len(home_games) > 0 else 0.0
WinPctOrZero(wins, n) == IF n > 0 THEN Frac(wins, n) ELSE ZERO

calculate_home_away_splits(df, team_id, before_date, n_games) ==
    LET home_games ==
            PandasTail(RowsWhere(df, LAMBDA r :
                r.home_team_id = team_id /\ r.date < before_date), n_games)
        away_games ==
            PandasTail(RowsWhere(df, LAMBDA r :
                r.visitor_team_id = team_id /\ r.date < before_date), n_games)
        home_wins == Count(home_games, LAMBDA g :
                        df[g].home_team_score > df[g].visitor_team_score)
        away_wins == Count(away_games, LAMBDA g :
                        df[g].visitor_team_score > df[g].home_team_score)
    IN  [home_games |-> Len(home_games),
         home_win_pct |-> WinPctOrZero(home_wins, Len(home_games)),
         away_games |-> Len(away_games),
         away_win_pct |-> WinPctOrZero(away_wins, Len(away_games))]

\* is_back_to_back: rest_days == 1
is_back_to_back(df, team_id, game_date) == calculate_rest_days(df, team_id, game_date) = 1

\* ------------------------------------------------------------ the cache
\* pd.concat([df['home_team_id'], df['visitor_team_id']]).unique()
TeamsOf(df) ==
    {df[k].home_team_id : k \in 1..Len(df)} \cup {df[k].visitor_team_id : k \in 1..Len(df)}

\* _build_team_games_cache: cache['team_games'][team_id] =
\* sorted(df[home_mask | away_mask].index.tolist()), i.e. sorted by index label.
_build_team_games_cache(df) ==
    [team_id \in TeamsOf(df) |-> RowsWhere(df, LAMBDA r : PlaysIn(r, team_id))]

\* cache['team_games'].get(team_id, [])
CacheGet(cache, team_id) ==
    IF team_id \in DOMAIN cache THEN cache[team_id] ELSE <<>>

\* sorted(set(a) & set(b)) for two ascending lists of positions
SortedIntersection(a, b) ==
    Filter(a, LAMBDA x : \E k \in 1..Len(b) : b[k] = x)

\* ---------------------------------------------------- cached aggregators
\* Mutant: the date filter written "<=" lets the games of the cutoff day in.
Mutant_team_form_cached_leaky(df, team_id, date, cache, n_games) ==
    LET game_indices   == CacheGet(cache, team_id)
        relevant_games ==
            PySliceLast(Filter(game_indices, LAMBDA idx : df[idx].date <= date), n_games)
    IN  IF relevant_games = <<>> THEN EmptyForm
        ELSE FormStats(df, relevant_games, team_id)

_calculate_team_form_cached(df, team_id, date, cache, n_games) ==
    LET game_indices   == CacheGet(cache, team_id)
        relevant_games ==
            PySliceLast(Filter(game_indices, LAMBDA idx : df[idx].date < date), n_games)
    IN  IF relevant_games = <<>> THEN EmptyForm
        ELSE FormStats(df, relevant_games, team_id)

_calculate_head_to_head_cached(df, team1_id, team2_id, before_date, cache, n_games) ==
    LET common      == SortedIntersection(CacheGet(cache, team1_id),
                                          CacheGet(cache, team2_id))
        h2h_indices ==
            PySliceLast(Filter(common, LAMBDA idx : df[idx].date < before_date), n_games)
    IN  IF h2h_indices = <<>> THEN EmptyH2H ELSE H2HStats(df, h2h_indices, team1_id)

_calculate_rest_days_cached(df, team_id, game_date, cache) ==
    LET game_indices == CacheGet(cache, team_id)
        prev_games   == Filter(game_indices, LAMBDA idx : df[idx].date < game_date)
    IN  IF prev_games = <<>> THEN NO_PREVIOUS_GAME
        ELSE game_date - df[prev_games[Len(prev_games)]].date

_calculate_win_streak_cached(df, team_id, before_date, cache) ==
    LET game_indices   == CacheGet(cache, team_id)
        relevant_games == Filter(game_indices, LAMBDA idx : df[idx].date < before_date)
        rev            == Reverse(relevant_games)
    IN  IF relevant_games = <<>> THEN 0
        ELSE StreakOf([k \in 1..Len(rev) |-> WonGame(df[rev[k]], team_id)])

_calculate_home_away_splits_cached(df, team_id, before_date, cache, n_games) ==
    LET game_indices   == CacheGet(cache, team_id)
        relevant_games == Filter(game_indices, LAMBDA idx : df[idx].date < before_date)
        home_games == PySliceLast(
            Filter(relevant_games, LAMBDA idx : df[idx].home_team_id = team_id), n_games)
        away_games == PySliceLast(
            Filter(relevant_games, LAMBDA idx : df[idx].visitor_team_id = team_id), n_games)
        home_wins == Count(home_games, LAMBDA g :
                        df[g].home_team_score > df[g].visitor_team_score)
        away_wins == Count(away_games, LAMBDA g :
                        df[g].visitor_team_score > df[g].home_team_score)
    IN  [home_games |-> Len(home_games),
         home_win_pct |-> WinPctOrZero(home_wins, Len(home_games)),
         away_games |-> Len(away_games),
         away_win_pct |-> WinPctOrZero(away_wins, Len(away_games))]

\* ------------------------------------------------ the cost of a lookup
\* The index entries that a point-in-time query of a team examines.  Every
\* cached aggregator starts with
\*   [idx for idx in game_indices if df.loc[idx, 'date'] < date]
\* which reads the date of every entry of the team's list, whatever the cutoff.
EntriesExamined(cache, team_id) == Len(CacheGet(cache, team_id))

\* ------------------------------------------------- failures inside the loop
\* The two dtypes of a date column: Timestamps (after pd.to_datetime) and
\* the ISO date strings of the raw JSON.  ISO strings compare in date order,
\* so "date < cutoff" gives the same answer for both; only the subtraction of
\* two dates differs: Timestamp - Timestamp is a Timedelta, str - str raises
\* TypeError.
DATETIME == "datetime64[ns]"
OBJECT_STR == "object"

\* The dtype of the date column of a table that has no date column.
NO_DATE_COLUMN == "no date column"

\* calculate_team_form raises KeyError in its first statement, the row mask
\* over df["home_team_id"], df["visitor_team_id"] and df["date"], exactly when
\* the table lacks one of these columns.
TeamFormRaises(columns) ==
    ~({"home_team_id", "visitor_team_id", "date"} \subseteq columns)

\* _build_team_games_cache raises KeyError at
\* pd.concat([df['home_team_id'], df['visitor_team_id']]) exactly when the
\* table lacks one of the two columns; create_game_features calls it before
\* the loop, outside the try.
BuildCacheRaises(columns) ==
    ~({"home_team_id", "visitor_team_id"} \subseteq columns)

\* _calculate_rest_days_cached raises exactly when it reaches
\* "(game_date - last_game_date).days" on strings: the team has an indexed
\* game dated before game_date.
RestDaysRaises(df, dtype, team_id, game_date, cache) ==
    /\ dtype = OBJECT_STR
    /\ Filter(CacheGet(cache, team_id), LAMBDA idx : df[idx].date < game_date) # <<>>

\* The body of the try block raises for the row at position i.
RaisesInLoop(df, dtype, cache, i) ==
    \/ RestDaysRaises(df, dtype, df[i].home_team_id, df[i].date, cache)
    \/ RestDaysRaises(df, dtype, df[i].visitor_team_id, df[i].date, cache)

\* ------------------------------------------------------ the feature row
\* Mutant: a tie is labelled as a home win.
Mutant_HomeWinLabel_ties(game) ==
    IF game.home_team_score >= game.visitor_team_score THEN 1 ELSE 0

\* 1 if game["home_team_score"] > game["visitor_team_score"] else 0
HomeWinLabel(game) ==
    IF game.home_team_score > game.visitor_team_score THEN 1 ELSE 0

\* The body of the loop of create_game_features for the row at position i:
\* every aggregator is called with the row's own date as the cutoff.
FeatureDict(df, cache, i, include_future_target) ==
    LET game        == df[i]
        game_date   == game.date
        home_team   == game.home_team_id
        away_team   == game.visitor_team_id
        home_form   == _calculate_team_form_cached(df, home_team, game_date, cache, DEFAULT_N_GAMES)
        away_form   == _calculate_team_form_cached(df, away_team, game_date, cache, DEFAULT_N_GAMES)
        h2h         == _calculate_head_to_head_cached(df, home_team, away_team, game_date, cache, DEFAULT_N_GAMES)
        home_rest   == _calculate_rest_days_cached(df, home_team, game_date, cache)
        away_rest   == _calculate_rest_days_cached(df, away_team, game_date, cache)
        home_streak == _calculate_win_streak_cached(df, home_team, game_date, cache)
        away_streak == _calculate_win_streak_cached(df, away_team, game_date, cache)
        home_splits == _calculate_home_away_splits_cached(df, home_team, game_date, cache, DEFAULT_N_GAMES)
        away_splits == _calculate_home_away_splits_cached(df, away_team, game_date, cache, DEFAULT_N_GAMES)
    IN  [game_id |-> game.id,
         date |-> game_date,
         home_team_id |-> home_team,
         away_team_id |-> away_team,
         home_win_pct |-> home_form.win_pct,
         home_avg_points |-> home_form.avg_points_scored,
         home_avg_allowed |-> home_form.avg_points_allowed,
         home_point_diff |-> home_form.avg_point_differential,
         away_win_pct |-> away_form.win_pct,
         away_avg_points |-> away_form.avg_points_scored,
         away_avg_allowed |-> away_form.avg_points_allowed,
         away_point_diff |-> away_form.avg_point_differential,
         h2h_games |-> h2h.h2h_games,
         home_h2h_win_pct |-> h2h.team1_win_pct,
         home_rest_days |-> home_rest,
         away_rest_days |-> away_rest,
         home_b2b |-> IF home_rest = 1 THEN 1 ELSE 0,
         away_b2b |-> IF away_rest = 1 THEN 1 ELSE 0,
         home_streak |-> home_streak,
         away_streak |-> away_streak,
         home_home_win_pct |-> home_splits.home_win_pct,
         away_away_win_pct |-> away_splits.away_win_pct,
         \* the target columns; "none" when include_future_target is False
         home_win |-> IF include_future_target THEN HomeWinLabel(game) ELSE "none",
         home_score |-> IF include_future_target THEN game.home_team_score ELSE "none",
         away_score |-> IF include_future_target THEN game.visitor_team_score ELSE "none"]

\* ------------------------------------------------------------ the inputs
\* The id column: externally assigned, unique, unrelated to the position.
GameId(k) == 100 + k

Games ==
    {[date |-> d, home_team_id |-> h, visitor_team_id |-> v,
      home_team_score |-> sc[1], visitor_team_score |-> sc[2]] :
        d \in Days, h \in Teams, v \in Teams, sc \in ScorePairs}

\* A game row: the two teams are distinct.
ValidGames == {g \in Games : g.home_team_id # g.visitor_team_id}

MakeFrame(gs) ==
    [k \in 1..Len(gs) |->
        [id |-> GameId(k), date |-> gs[k].date,
         home_team_id |-> gs[k].home_team_id,
         visitor_team_id |-> gs[k].visitor_team_id,
         home_team_score |-> gs[k].home_team_score,
         visitor_team_score |-> gs[k].visitor_team_score]]


\* The last day of the calendar and of the table: standalone calls use every
\* cutoff up to the day after it.
LastDay(frame) ==
    LET days == {frame[k].date : k \in 1..Len(frame)} \cup {MaxDay}
    IN  CHOOSE d \in days : \A e \in days : e <= d

IsSortedByDate(frame) ==
    \A a, b \in 1..Len(frame) : a < b => frame[a].date <= frame[b].date

\* ------------------------------------------------- raw tables and cleaning
\* src/src/data_processing/cleaning.py, class DataCleaner, and the pipeline of
\* scripts/train_models.py.  A table is its rows (df) and its column names
\* (columns); a row has a field for every column of its table.
MaxRawGames == 2

\* The columns of a game table as create_game_features reads it.
GameColumns ==
    {"id", "date", "home_team_id", "visitor_team_id",
     "home_team_score", "visitor_team_score"}

\* The columns of a raw game table with flat team ids.
RawColumns == GameColumns \cup {"status"}

\* The row restricted to the given columns.
Project(r, cols) == [c \in cols |-> r[c]]

\* Raw rows: the ids may repeat, a score may be negative, the two team ids may
\* be the same.
RawIds == {101, 102}
RawScorePairs == ScorePairs \cup {<<-1, 1>>, <<1, -1>>}

\* np.nan in a column of numbers: a missing entry.  Every comparison of a
\* score with it (< 0, >= 0, > 200) is False.
NaN == -1000

\* None in a column of strings (a JSON null status): a missing entry, equal to
\* no status.
NoneText == "None"

ScoreColumns == {"home_team_score", "visitor_team_score"}

RawGames ==
    {[id |-> id, date |-> d, home_team_id |-> h, visitor_team_id |-> v,
      home_team_score |-> sc[1], visitor_team_score |-> sc[2], status |-> "Final"] :
        id \in RawIds, d \in Days, h \in {1, 2}, v \in {1, 2}, sc \in RawScorePairs}

\* df["id"].duplicated().sum(): the rows whose id already appears in an earlier row.
DuplicatedCount(df) ==
    Cardinality({m \in 1..Len(df) : \E k \in 1..(m - 1) : df[k].id = df[m].id})

\* One counted entry of the report: "<count> games with negative home scores",
\* "<count> games with negative visitor scores", "<count> duplicate game IDs"
\* in issues, "<count> games with scores > 200" in warnings.
Issue(count, what) == [count |-> count, what |-> what]

\* validate_game_data: builds and RETURNS the quality report; it never raises.
\* Every check on a column is made only when the table has the column.  The
\* two entries that are not counts are "Missing required columns:
\* {missing_cols}", the first issue, and "Columns with missing values:
\* {dict}", the last warning.
validate_game_data(df, columns) ==
    LET required_columns ==
            <<"id", "date", "home_team_score", "visitor_team_score", "status">>
        missing_cols     == SelectSeq(required_columns, LAMBDA col : col \notin columns)
        negative_home    ==
            IF "home_team_score" \in columns
            THEN Count(df, LAMBDA r : r.home_team_score # NaN /\ r.home_team_score < 0)
            ELSE 0
        negative_visitor ==
            IF "visitor_team_score" \in columns
            THEN Count(df, LAMBDA r : r.visitor_team_score # NaN /\ r.visitor_team_score < 0)
            ELSE 0
        high_scores      ==
            IF "home_team_score" \in columns
            THEN Count(df, LAMBDA r : r.home_team_score # NaN /\ r.home_team_score > 200)
            ELSE 0
        duplicates       == IF "id" \in columns THEN DuplicatedCount(df) ELSE 0
        \* df.isnull(): the missing entries of every column.  A column of
        \* strings holds None, a column of numbers NaN; the nested team
        \* objects and the postseason flag are written in every row.
        IsNull(r, col)   ==
            CASE col \in {"status", "winner"} -> r[col] = NoneText
              [] col \in {"home_team", "visitor_team", "postseason"} -> FALSE
              [] OTHER -> r[col] = NaN
        \* missing_summary = df.isnull().sum(); missing_summary[missing_summary > 0]
        NullCount(col)   == Count(df, LAMBDA r : IsNull(r, col))
        summary          ==
            [col \in {c \in columns : NullCount(c) > 0} |-> NullCount(col)]
    IN  [total_rows |-> Len(df),
         issues |->
            (IF missing_cols # <<>>
             THEN <<[what |-> "Missing required columns", missing_cols |-> missing_cols]>>
             ELSE <<>>)
            \o (IF negative_home > 0
                THEN <<Issue(negative_home, "games with negative home scores")>> ELSE <<>>)
            \o (IF negative_visitor > 0
                THEN <<Issue(negative_visitor, "games with negative visitor scores")>>
                ELSE <<>>)
            \o (IF duplicates > 0
                THEN <<Issue(duplicates, "duplicate game IDs")>> ELSE <<>>),
         warnings |->
            (IF high_scores > 0
             THEN <<Issue(high_scores, "games with scores > 200")>> ELSE <<>>)
            \o (IF DOMAIN summary # {}
                THEN <<[what |-> "Columns with missing values", summary |-> summary]>>
                ELSE <<>>)]

\* df.drop_duplicates(subset=["id"], keep="first")
DropDuplicates(df) ==
    LET F[k \in 0..Len(df)] ==
            IF k = 0 THEN <<>>
            ELSE IF \E m \in 1..(k - 1) : df[m].id = df[k].id
                 THEN F[k - 1] ELSE Append(F[k - 1], df[k])
    IN  F[Len(df)]

\* df[(df["home_team_score"] >= 0) & (df["visitor_team_score"] >= 0)]: a row
\* with a negative or a missing score fails the comparison.
ScoresNonNegative(r) ==
    /\ r.home_team_score # NaN /\ r.home_team_score >= 0
    /\ r.visitor_team_score # NaN /\ r.visitor_team_score >= 0

\* Mutant: the repeated ids are dropped before the rows with a bad score.
Mutant_clean_dedupe_first(df, columns) ==
    LET deduped  == IF "id" \in columns THEN DropDuplicates(df) ELSE df
        scored   == IF ScoreColumns \subseteq columns
                    THEN SelectSeq(deduped, ScoresNonNegative) ELSE deduped
    IN  IF "status" \in columns
        THEN SelectSeq(scored, LAMBDA r : r.status = "Final")
        ELSE scored

\* clean_game_data: the rows with a negative or missing score, the later rows
\* of a repeated id and the rows that are not "Final" are dropped, in this
\* order, each filter only when the table has the columns it reads; nothing
\* is raised and the columns stay as they are.  The rows keep their relative
\* order; the index labels they keep are used by create_game_features only
\* through their order, so the cleaned table is the sequence of the remaining
\* rows.
clean_game_data(df, columns) ==
    LET scored  == IF ScoreColumns \subseteq columns
                   THEN SelectSeq(df, ScoresNonNegative) ELSE df
        deduped == IF "id" \in columns THEN DropDuplicates(scored) ELSE scored
    IN  IF "status" \in columns
        THEN SelectSeq(deduped, LAMBDA r : r.status = "Final")
        ELSE deduped

\* Raw tables for the cleaning alone: a score may be negative, missing or above
\* 200, an id may repeat, a game may be unfinished, a home team id or a status
\* may be missing, the status column and the date column may be absent.
MaxDirtyRows == 3

DirtyScorePairs == RawScorePairs \cup {<<NaN, 1>>, <<1, NaN>>, <<201, 1>>}

DirtyGames ==
    {[id |-> id, date |-> 1, home_team_id |-> 1, visitor_team_id |-> 2,
      home_team_score |-> sc[1], visitor_team_score |-> sc[2], status |-> st] :
        id \in RawIds, sc \in DirtyScorePairs, st \in {"Final", "In Progress"}}
    \cup {[id |-> id, date |-> 1, home_team_id |-> entry[1], visitor_team_id |-> 2,
            home_team_score |-> 2, visitor_team_score |-> 1, status |-> entry[2]] :
            id \in RawIds, entry \in {<<NaN, "Final">>, <<1, NoneText>>}}

\* ------------------------------------- the tables of scripts/train_models.py
\* The raw JSON of a game carries its teams as nested objects
\* ("home_team": {"id": ...}); the team id columns exist only after
\* prepare_game_dataframe, which the script does not call.
NestedColumns ==
    (RawColumns \ {"home_team_id", "visitor_team_id"}) \cup {"home_team", "visitor_team"}

Nested(r) ==
    [id |-> r.id, date |-> r.date,
     home_team |-> [id |-> r.home_team_id], visitor_team |-> [id |-> r.visitor_team_id],
     home_team_score |-> r.home_team_score, visitor_team_score |-> r.visitor_team_score,
     status |-> r.status]

\* The columns of pd.DataFrame(generate_sample_games(n)).
SampleColumns ==
    NestedColumns \cup
        {"season", "period", "postseason", "winner", "winner_team_id", "loser_team_id",
         "score_differential", "total_points", "game_date_parsed"}

\* Row number k (from 1) of generate_sample_games: id k, five games a day from
\* the first day on, two different teams, final.
SampleGame(k, home, away, home_score, away_score) ==
    [id |-> k,
     date |-> ((k - 1) \div 5) + 1,
     home_team |-> [id |-> home],
     home_team_score |-> home_score,
     visitor_team |-> [id |-> away],
     visitor_team_score |-> away_score,
     status |-> "Final",
     season |-> 2023,
     period |-> 4,
     postseason |-> FALSE,
     winner |-> IF home_score > away_score THEN "home" ELSE "away",
     winner_team_id |-> IF home_score > away_score THEN home ELSE away,
     loser_team_id |-> IF home_score > away_score THEN away ELSE home,
     score_differential |-> Abs(home_score - away_score),
     total_points |-> home_score + away_score,
     game_date_parsed |-> ((k - 1) \div 5) + 1]

\* The tables generate_sample_games(n) can draw: the scores come from
\* np.random.randint(95, 125), whose two ends stand for the range.
generate_sample_games(n) ==
    LET scores == {95, 124}
    IN  {[k \in 1..n |-> SampleGame(k, draw[k][1], draw[k][2], draw[k][3], draw[k][4])] :
            draw \in [1..n -> {d \in Teams \X Teams \X scores \X scores : d[1] # d[2]}]}

\* ------------------------------------------------------- time-based split
\* src/src/data_processing/dataset_builder.py, DatasetBuilder.create_time_based_split.
\* A ratio argument is given as the whole number of percent of its decimal
\* literal: 70 stands for the call argument 0.7, the float FloatRatio(70).
MaxSplitRows == 5

\* <<train_ratio, val_ratio, test_ratio>>: the defaults 0.7 / 0.15 / 0.15, other
\* ratios that sum to 1, the two extremes, two triples whose sum is 0.95 and
\* 0.99, and 0.7 / 0.1 / 0.2, whose float sum 0.7 + 0.1 is below 0.8.
SplitRatios ==
    {<<70, 15, 15>>, <<50, 25, 25>>, <<60, 20, 20>>, <<100, 0, 0>>, <<0, 0, 100>>,
     <<70, 15, 10>>, <<70, 10, 20>>, <<80, 15, 4>>}

\* abs(train_ratio + val_ratio + test_ratio - 1.0) >= 0.01, in floats, the sum
\* taken from left to right.
RatiosRejected(train_ratio, val_ratio, test_ratio) ==
    \E sum \in {FloatAdd(FloatAdd(FloatRatio(train_ratio), FloatRatio(val_ratio)),
                          FloatRatio(test_ratio))}, one \in {FloatOfInt(1)} :
        \E diff \in {RoundToFloat(IF BigLess(sum, one) THEN BigSub(one, sum)
                                   ELSE BigSub(sum, one))} :
            ~BigLess(diff, FloatRatio(1))

\* df.sort_values(date_column).reset_index(drop=True), default kind="quicksort":
\* the rows in non-decreasing date order; the relative order of rows that
\* share a date is whatever the sort of the build produces.
SortValuesByDate(df) ==
    LET Orders[rows \in SUBSET (1..Len(df))] ==
            IF rows = {} THEN {<<>>}
            ELSE LET first == {k \in rows : \A m \in rows : df[k].date <= df[m].date}
                 IN  UNION {{<<df[k]>> \o rest : rest \in Orders[rows \ {k}]} : k \in first}
    IN  Orders[1..Len(df)]

\* df.iloc[a:b] for 0 <= a: the rows a .. b-1 (0-based), b cut to the length.
ILoc(df, a, b) ==
    LET stop == IF b > Len(df) THEN Len(df) ELSE b
    IN  SubSeq(df, a + 1, stop)

\* Mutant: the table is split as given, without sorting it by date.
Mutant_split_unsorted(df, train_ratio, val_ratio) ==
    {[train |-> ILoc(df, 0, train_end),
      val   |-> ILoc(df, train_end, val_end),
      test  |-> ILoc(df, val_end, Len(df))] :
        train_end \in {IntOfProduct(Len(df), FloatRatio(train_ratio))},
        val_end   \in {IntOfProduct(Len(df), FloatAdd(FloatRatio(train_ratio),
                                                      FloatRatio(val_ratio)))}}

\* create_time_based_split for accepted ratios: the set of (train, val, test)
\* triples the call can return.  train_end = int(n * train_ratio) and
\* val_end = int(n * (train_ratio + val_ratio)) are computed in floats.
create_time_based_split(df, train_ratio, val_ratio) ==
    {[train |-> ILoc(sorted, 0, train_end),
      val   |-> ILoc(sorted, train_end, val_end),
      test  |-> ILoc(sorted, val_end, Len(df))] :
        sorted    \in SortValuesByDate(df),
        train_end \in {IntOfProduct(Len(df), FloatRatio(train_ratio))},
        val_end   \in {IntOfProduct(Len(df), FloatAdd(FloatRatio(train_ratio),
                                                      FloatRatio(val_ratio)))}}

\* ----------------------------------------------------------- random split
\* DatasetBuilder.create_random_split and the two train_test_split calls it makes.

\* rng.permutation of the rows: the order depends on the seed and on the
\* library build, so every order of the rows is possible.
Shuffles(df) ==
    LET Orders[rows \in SUBSET (1..Len(df))] ==
            IF rows = {} THEN {<<>>}
            ELSE UNION {{<<df[k]>> \o rest : rest \in Orders[rows \ {k}]} : k \in rows}
    IN  Orders[1..Len(df)]

\* train_test_split(df, train_size=train_size) raises ValueError when the
\* float train_size is not strictly between 0 and 1, and when n_train is 0.
TrainSizeRejected(n_samples, train_size) ==
    \/ train_size = BigZero
    \/ ~BigLess(train_size, FloatOfInt(1))
    \/ IntOfProduct(n_samples, train_size) = 0

\* The n_train first rows of a shuffle of the table and the rows after them.
ShuffleSplit(df, n_train) ==
    {[train |-> SubSeq(p, 1, n_train), test |-> SubSeq(p, n_train + 1, Len(df))] :
        p \in Shuffles(df)}

\* train_test_split(df, train_size=train_size) when it does not raise: n_train
\* shuffled rows and the other n_samples - n_train rows.
train_test_split(df, train_size) == ShuffleSplit(df, IntOfProduct(Len(df), train_size))

\* val_ratio_adjusted = val_ratio / (val_ratio + test_ratio), in floats.  The
\* division is reached only after the first train_test_split accepted
\* train_ratio < 1, so for whole percents that passed the ratio check the
\* divisor is positive.
val_ratio_adjusted(val_ratio, test_ratio) ==
    FloatDiv(FloatRatio(val_ratio), FloatAdd(FloatRatio(val_ratio), FloatRatio(test_ratio)))

\* Whether create_random_split raises ValueError: the ratio check, then the
\* first train_test_split, then the second one on the rows the first left over.
RandomSplitRejected(df, train_ratio, val_ratio, test_ratio) ==
    IF RatiosRejected(train_ratio, val_ratio, test_ratio) THEN TRUE
    ELSE IF TrainSizeRejected(Len(df), FloatRatio(train_ratio)) THEN TRUE
    ELSE TrainSizeRejected(Len(df) - IntOfProduct(Len(df), FloatRatio(train_ratio)),
                           val_ratio_adjusted(val_ratio, test_ratio))

\* create_random_split when nothing is raised: the set of (train, val, test)
\* triples the call can return.  The second train_test_split is made on the
\* rows the first left over; its n_train depends only on how many they are.
create_random_split(df, train_ratio, val_ratio, test_ratio) ==
    UNION {UNION {UNION {{[train |-> first.train, val |-> second.train,
                           test |-> second.test] :
                            second \in ShuffleSplit(first.test, n_val)} :
                         first \in ShuffleSplit(df, n_train)} :
                  n_val \in {IntOfProduct(Len(df) - n_train,
                                          val_ratio_adjusted(val_ratio, test_ratio))}} :
           n_train \in {IntOfProduct(Len(df), FloatRatio(train_ratio))}}

\* A table for the split: only the dates of the rows vary.
SplitFrame(dates) ==
    MakeFrame([k \in 1..Len(dates) |->
        [date |-> dates[k], home_team_id |-> 1, visitor_team_id |-> 2,
         home_team_score |-> 2, visitor_team_score |-> 1]])

\* ------------------------------------------------------- rolling averages
\* GameFeatureEngineer.calculate_rolling_averages (game_features.py) and
\* PlayerFeatureEngineer.calculate_player_rolling_averages (player_features.py).
\* A row is [key, value]: key is the team_id_col / "player_id" column the
\* table is grouped by, value the statistic that is averaged; the rows are in
\* the order the caller sorted them in.
MaxRollRows == 4
MaxRollWindow == 3

RollRows == {[key |-> g, value |-> v] : g \in {1, 2}, v \in {1, 2, 4}}

\* The mean of a window with no observation.
NAN_MEAN == <<0, 0>>

\* .mean() over the rows at the given positions.
MeanOf(df, positions) ==
    IF positions = <<>> THEN NAN_MEAN
    ELSE Frac(SumSeq([j \in 1..Len(positions) |-> df[positions[j]].value]), Len(positions))

\* The positions 1 .. last of the rows of the group of row k.
GroupPositions(df, k, last) ==
    SelectSeq([m \in 1..last |-> m], LAMBDA m : df[m].key = df[k].key)

\* df.groupby(team_id_col)[col].transform(
\*     lambda x: x.rolling(window=window, min_periods=1).mean()):
\* the window ends at the row itself.
calculate_rolling_averages(df, window) ==
    [k \in 1..Len(df) |-> MeanOf(df, PandasTail(GroupPositions(df, k, k), window))]

\* df.groupby("player_id")[col].transform(
\*     lambda x: x.shift(1).rolling(window=window, min_periods=1).mean()):
\* the window ends at the previous row of the player; NaN for the first row.
calculate_player_rolling_averages(df, window) ==
    [k \in 1..Len(df) |-> MeanOf(df, PandasTail(GroupPositions(df, k, k - 1), window))]

\* ------------------------------------------------------------ InMemoryCache
\* src/src/caching/redis_cache.py, class InMemoryCache.  self.cache is a dict:
\* it keeps its entries in insertion order, and assigning to a key that is
\* present replaces the value where the entry is.  An entry is [key, value].
MaxCacheSize == 2
MaxCalls == 4

CacheKeys == {"a", "b", "c"}
CacheValues == {1, 2}

\* The result None of a get that misses.
None == 0

\* The keys of a dict.
KeysOf(entries) == {entries[k].key : k \in 1..Len(entries)}

\* self.cache[key] for a key that is present.
DictGet(entries, key) ==
    (CHOOSE e \in {entries[k] : k \in 1..Len(entries)} : e.key = key).value

\* self.cache[key] = value
DictSet(entries, key, value) ==
    IF key \in KeysOf(entries)
    THEN [k \in 1..Len(entries) |->
            IF entries[k].key = key THEN [key |-> key, value |-> value] ELSE entries[k]]
    ELSE Append(entries, [key |-> key, value |-> value])

\* del self.cache[key]
DictDel(entries, key) == SelectSeq(entries, LAMBDA e : e.key # key)

\* Mutant: set evicts only when the cache holds more than capacity entries.
Mutant_set_evicts_late(entries, capacity, key, value) ==
    DictSet(IF Len(entries) > capacity THEN Tail(entries) ELSE entries, key, value)

\* The body of InMemoryCache.set: when len(self.cache) >= self.max_size the
\* first entry in insertion order (next(iter(self.cache))) is deleted, whether
\* or not key is present; then self.cache[key] = value.
InMemoryCache_set(entries, capacity, key, value) ==
    DictSet(IF Len(entries) >= capacity THEN Tail(entries) ELSE entries, key, value)

\* ------------------------------------------------------------- the state
VARIABLES
    df,                     \* the caller's game DataFrame: its rows
    columns,                \* df.columns: the column names of the table
    date_dtype,             \* the dtype of df['date']: parsed dates or raw strings
    include_future_target,  \* the argument of create_game_features (set by the call)
    pc,                     \* position in create_game_features
    cache,                  \* cache['team_games'] once built
    i,                      \* position of the row the loop is at
    features,               \* the list of feature dicts
    failed_games,           \* rows whose feature computation raised
    q,                      \* the last standalone call and its result
    self_cache,             \* InMemoryCache.cache: the entries in insertion order
    max_size,               \* InMemoryCache.max_size
    hits,                   \* InMemoryCache.hits
    misses,                 \* InMemoryCache.misses
    lock,                   \* InMemoryCache.lock: the thread that holds it, or FREE
    threads,                \* each thread's position and the call it is making
    n_calls                 \* the calls made on the InMemoryCache so far

\* The variables of the InMemoryCache and of the threads that use it.
mem_vars == <<self_cache, max_size, hits, misses, lock, threads, n_calls>>

vars == <<df, columns, date_dtype, include_future_target, pc, cache, i, features, failed_games, q,
          mem_vars>>

NoQuery == [op |-> "none"]

\* The cutoff dates of the standalone calls on the table.
Cutoffs == 1..(LastDay(df) + 1)

\* The threads that share one InMemoryCache, and the lock when nobody holds it.
Threads == {1, 2}
FREE == 0
Idle == [at |-> "idle"]

\* No InMemoryCache is in use.
NoInMemoryCache ==
    /\ self_cache = <<>>
    /\ max_size = 0
    /\ hits = 0
    /\ misses = 0
    /\ lock = FREE
    /\ threads = [t \in Threads |-> Idle]
    /\ n_calls = 0

\* game_features has not been imported and no call of create_game_features
\* has started.
InitLoop ==
    /\ include_future_target = FALSE
    /\ pc = "import"
    /\ cache = <<>>
    /\ i = 0
    /\ features = <<>>
    /\ failed_games = 0
    /\ q = NoQuery

\* The state before any call on the game table.
InitCall == InitLoop /\ NoInMemoryCache

\* The state before the call, for a game table of at most maxGames rows whose
\* date column has been parsed (df['date'] = pd.to_datetime(df['date'])).
InitWith(maxGames) ==
    /\ \E n \in 0..maxGames : \E gs \in [1..n -> ValidGames] : df = MakeFrame(gs)
    /\ columns = GameColumns
    /\ date_dtype = DATETIME
    /\ InitCall

\* Every game table of at most MaxGames rows, in any row order.
Init == InitWith(MaxGames)

\* ------------------------------------------------ importing game_features
\* from src.data_processing.game_features import GameFeatureEngineer.  The
\* module imports only Dict, List and Optional from typing, and the signature
\* of calculate_head_to_head is annotated "-> Dict[str, Any]".  An interpreter
\* that evaluates annotations when the def statement runs (Python 3.8 to 3.13)
\* raises NameError: name 'Any' is not defined while the class body executes,
\* and no method of GameFeatureEngineer can be called; one that defers them
\* (Python 3.14) imports the module.  setup.py asks for python >= 3.8.
ImportGameFeatures ==
    /\ pc = "import"
    /\ pc' \in {"start", "NameError"}
    /\ UNCHANGED <<df, columns, date_dtype, include_future_target, cache, i, features,
                   failed_games, q, mem_vars>>

\* ---------------------------------------------------- create_game_features
\* Mutant: the feature list is kept from one call to the next (an attribute of
\* the engineer instead of a local).
Mutant_BuildCache_keeps_features ==
    /\ pc = "start"
    /\ IF BuildCacheRaises(columns)
       THEN /\ pc' = "KeyError"
            /\ UNCHANGED <<include_future_target, cache, i, features, failed_games>>
       ELSE /\ include_future_target' \in BOOLEAN
            /\ cache' = _build_team_games_cache(df)
            /\ features' = features
            /\ failed_games' = 0
            /\ i' = 1
            /\ pc' = "loop"
    /\ UNCHANGED <<df, columns, date_dtype, q, mem_vars>>

\* df = df.copy(); features = []; failed_games = 0; cache = build(df).  The
\* KeyError of a table without the team id columns leaves the call here: the
\* try block starts inside the loop.
BuildCache ==
    /\ pc = "start"
    /\ IF BuildCacheRaises(columns)
       THEN /\ pc' = "KeyError"
            /\ UNCHANGED <<include_future_target, cache, i, features, failed_games>>
       ELSE /\ include_future_target' \in BOOLEAN
            /\ cache' = _build_team_games_cache(df)
            /\ features' = <<>>
            /\ failed_games' = 0
            /\ i' = 1
            /\ pc' = "loop"
    /\ UNCHANGED <<df, columns, date_dtype, q, mem_vars>>

\* Mutant: the home team's index entry is consumed once its row is processed
\* (a pointer-advancing index instead of a frozen one).
Mutant_ProcessGame_consumes_index ==
    /\ pc = "loop"
    /\ i <= Len(df)
    /\ features' = Append(features, FeatureDict(df, cache, i, include_future_target))
    /\ cache' = [cache EXCEPT ![df[i].home_team_id] = IF @ = <<>> THEN @ ELSE Tail(@)]
    /\ i' = i + 1
    /\ UNCHANGED <<df, columns, date_dtype, include_future_target, pc, failed_games, q, mem_vars>>

\* One iteration of "for game in df.itertuples()": rows are visited in row
\* order and the feature dict of the row is appended.
ProcessGame ==
    /\ pc = "loop"
    /\ i <= Len(df)
    /\ IF RaisesInLoop(df, date_dtype, cache, i)
       THEN \* except Exception: failed_games += 1; continue
            /\ failed_games' = failed_games + 1
            /\ features' = features
       ELSE /\ features' = Append(features, FeatureDict(df, cache, i, include_future_target))
            /\ failed_games' = failed_games
    /\ i' = i + 1
    /\ UNCHANGED <<df, columns, date_dtype, include_future_target, pc, cache, q, mem_vars>>

\* features_df = pd.DataFrame(features); return features_df
Return ==
    /\ pc = "loop"
    /\ i > Len(df)
    /\ pc' = "done"
    /\ UNCHANGED <<df, columns, date_dtype, include_future_target, cache, i, features, failed_games, q, mem_vars>>

Next == ImportGameFeatures \/ BuildCache \/ ProcessGame \/ Return

Spec == Init /\ [][Next]_vars

\* ------------------------------------------------------ standalone queries
\* A standalone call of an aggregator on the game table: the public function
\* on df, and the cached function on df and the cache built from df.  q
\* records the arguments and both results.
Query(op, team_id, team2_id, date, n_games, public, cached) ==
    [op |-> op, team_id |-> team_id, team2_id |-> team2_id, date |-> date,
     n_games |-> n_games, public |-> public, cached |-> cached]

\* The call is pure: it changes nothing but the record of the call.
QueryFrame ==
    UNCHANGED <<df, columns, date_dtype, include_future_target, pc, cache, i, features, failed_games, mem_vars>>

QueryTeamForm ==
    /\ q = NoQuery
    /\ pc = "start"
    /\ \E team_id \in Teams, date \in Cutoffs, n_games \in Windows :
        /\ q' = Query("team_form", team_id, team_id, date, n_games,
                      calculate_team_form(df, team_id, date, n_games),
                      _calculate_team_form_cached(df, team_id, date,
                          _build_team_games_cache(df), n_games))
        /\ QueryFrame

QueryHeadToHead ==
    /\ q = NoQuery
    /\ pc = "start"
    /\ \E team1_id \in Teams, team2_id \in Teams, date \in Cutoffs, n_games \in Windows :
        /\ q' = Query("head_to_head", team1_id, team2_id, date, n_games,
                      calculate_head_to_head(df, team1_id, team2_id, date, n_games),
                      _calculate_head_to_head_cached(df, team1_id, team2_id, date,
                          _build_team_games_cache(df), n_games))
        /\ QueryFrame

QueryRestDays ==
    /\ q = NoQuery
    /\ pc = "start"
    /\ \E team_id \in Teams, date \in Cutoffs :
        /\ q' = Query("rest_days", team_id, team_id, date, 0,
                      calculate_rest_days(df, team_id, date),
                      _calculate_rest_days_cached(df, team_id, date,
                          _build_team_games_cache(df)))
        /\ QueryFrame

QueryWinStreak ==
    /\ q = NoQuery
    /\ pc = "start"
    /\ \E team_id \in Teams, date \in Cutoffs :
        \E streak \in calculate_win_streak(df, team_id, date) :
            /\ q' = Query("win_streak", team_id, team_id, date, 0, streak,
                          _calculate_win_streak_cached(df, team_id, date,
                              _build_team_games_cache(df)))
            /\ QueryFrame

QueryHomeAwaySplits ==
    /\ q = NoQuery
    /\ pc = "start"
    /\ \E team_id \in Teams, date \in Cutoffs, n_games \in Windows :
        /\ q' = Query("home_away_splits", team_id, team_id, date, n_games,
                      calculate_home_away_splits(df, team_id, date, n_games),
                      _calculate_home_away_splits_cached(df, team_id, date,
                          _build_team_games_cache(df), n_games))
        /\ QueryFrame

\* A behaviour records one call, made on the table as given (before or without
\* the assembly): a second call on the same table would only lead to a state
\* that a first call reaches.
NextQuery ==
    \/ ImportGameFeatures
    \/ QueryTeamForm
    \/ QueryHeadToHead
    \/ QueryRestDays
    \/ QueryWinStreak
    \/ QueryHomeAwaySplits
    \/ (q = NoQuery /\ BuildCache)
    \/ (q = NoQuery /\ ProcessGame)
    \/ (q = NoQuery /\ Return)

\* Standalone queries, and the assembly, on every game table of at most
\* MaxQueryGames rows.
InitQuery == InitWith(MaxQueryGames)

SpecQuery == InitQuery /\ [][NextQuery]_vars

\* ---------------------------------------------------- the spec's scenario
\* Participants X and Y of the scenario of the specification.
Scenario == [X |-> 1, Y |-> 2]

\* One game of the scenario: the winner's and the loser's points on a day; the
\* log does not say who was home, so either side may be.
ScenarioGame(day, winner, loser, winner_pts, loser_pts, winner_home) ==
    IF winner_home
    THEN [date |-> day, home_team_id |-> winner, visitor_team_id |-> loser,
          home_team_score |-> winner_pts, visitor_team_score |-> loser_pts]
    ELSE [date |-> day, home_team_id |-> loser, visitor_team_id |-> winner,
          home_team_score |-> loser_pts, visitor_team_score |-> winner_pts]

\* X beats Y 100-90 on day 1, Y beats X 95-92 on day 3, X beats Y 110-100 on day 6.
ScenarioFrame(winner_home) ==
    MakeFrame(<<ScenarioGame(1, Scenario.X, Scenario.Y, 100, 90, winner_home[1]),
                ScenarioGame(3, Scenario.Y, Scenario.X, 95, 92, winner_home[2]),
                ScenarioGame(6, Scenario.X, Scenario.Y, 110, 100, winner_home[3])>>)

InitScenario ==
    /\ \E winner_home \in [1..3 -> BOOLEAN] : df = ScenarioFrame(winner_home)
    /\ columns = GameColumns
    /\ date_dtype = DATETIME
    /\ InitCall

SpecScenario == InitScenario /\ [][NextQuery]_vars

\* ------------------------------------------------- the pipeline on raw tables
\* train_game_models of scripts/train_models.py: the script imports
\* game_features, loads the table, cleans it and builds the features.
\* games_df = cleaner.clean_game_data(games_df): the report is logged, the
\* table is replaced by the cleaned one.
CleanGameData ==
    /\ q = NoQuery
    /\ pc = "start"
    /\ q' = [op |-> "clean_game_data", report |-> validate_game_data(df, columns)]
    /\ df' = clean_game_data(df, columns)
    /\ UNCHANGED <<columns, date_dtype, include_future_target, pc, cache, i, features, failed_games, mem_vars>>

\* The tables the script works on, of at most MaxRawGames rows:
\* load_games_as_dataframe gives pd.DataFrame(games) of the JSON file, with
\* the date column parsed when there is one: the games with flat team id
\* columns or with nested team objects, or the table without columns when the
\* file is missing (load_games returns []); when the loader raises, the table
\* is pd.DataFrame(generate_sample_games(200)), dates left as ISO strings.
InitRaw ==
    /\ \/ /\ \E n \in 0..MaxRawGames : df \in [1..n -> RawGames]
          /\ columns = RawColumns
          /\ date_dtype = DATETIME
       \/ /\ \E n \in 1..MaxRawGames : df \in [1..n -> {Nested(r) : r \in RawGames}]
          /\ columns = NestedColumns
          /\ date_dtype = DATETIME
       \/ /\ df = <<>>
          /\ columns = {}
          /\ date_dtype = NO_DATE_COLUMN
       \/ /\ df \in generate_sample_games(MaxRawGames)
          /\ columns = SampleColumns
          /\ date_dtype = OBJECT_STR
    /\ InitCall

\* The steps of the script in its order: the import, the cleaning, then
\* create_game_features on the cleaned table.
NextRaw ==
    \/ ImportGameFeatures
    \/ CleanGameData
    \/ (q # NoQuery /\ BuildCache)
    \/ ProcessGame
    \/ Return

SpecRaw == InitRaw /\ [][NextRaw]_vars

\* ------------------------------------------------- the cleaning as a call
\* cleaned = cleaner.clean_game_data(df): the caller keeps its table and gets
\* the cleaned copy.
CleanCall ==
    /\ q = NoQuery
    /\ q' = [op |-> "clean_game_data", input |-> df,
             report |-> validate_game_data(df, columns),
             returned |-> clean_game_data(df, columns)]
    /\ QueryFrame

\* report = cleaner.validate_game_data(df) on the same tables.
ValidateCall ==
    /\ q = NoQuery
    /\ q' = [op |-> "validate_game_data", input |-> df,
             report |-> validate_game_data(df, columns), returned |-> df]
    /\ QueryFrame

\* Every raw table of at most MaxDirtyRows rows, with or without a status
\* column and a date column, and the table pd.DataFrame() without columns.
InitClean ==
    /\ \/ \E cols \in {RawColumns \ missing : missing \in SUBSET {"status", "date"}} :
              /\ columns = cols
              /\ \E n \in 0..MaxDirtyRows :
                     df \in [1..n -> {Project(r, cols) : r \in DirtyGames}]
       \/ /\ columns = {}
          /\ df = <<>>
    /\ date_dtype = IF "date" \in columns THEN DATETIME ELSE NO_DATE_COLUMN
    /\ InitCall

NextClean == CleanCall \/ ValidateCall

SpecClean == InitClean /\ [][NextClean]_vars

\* ----------------------------------------- team form on an empty table
\* result = engineer.calculate_team_form(df, team_id, date, n_games), returning.
TeamFormCall ==
    /\ q = NoQuery
    /\ pc = "start"
    /\ ~TeamFormRaises(columns)
    /\ \E team_id \in Teams, date \in Cutoffs, n_games \in Windows :
        q' = [op |-> "calculate_team_form", raised |-> "none",
              team_id |-> team_id, date |-> date, n_games |-> n_games,
              result |-> calculate_team_form(df, team_id, date, n_games)]
    /\ QueryFrame

\* The same call leaving with the KeyError of the missing column.
TeamFormCallRaises ==
    /\ q = NoQuery
    /\ pc = "start"
    /\ TeamFormRaises(columns)
    /\ \E team_id \in Teams, date \in Cutoffs, n_games \in Windows :
        q' = [op |-> "calculate_team_form", raised |-> "KeyError",
              team_id |-> team_id, date |-> date, n_games |-> n_games,
              result |-> "none"]
    /\ QueryFrame

\* A game table of at most one row, or the table pd.DataFrame() without columns.
InitEmpty ==
    /\ \/ /\ \E n \in 0..1 : \E gs \in [1..n -> ValidGames] : df = MakeFrame(gs)
          /\ columns = GameColumns
          /\ date_dtype = DATETIME
       \/ /\ df = <<>>
          /\ columns = {}
          /\ date_dtype = NO_DATE_COLUMN
    /\ InitCall

NextEmpty == ImportGameFeatures \/ TeamFormCall \/ TeamFormCallRaises

SpecEmpty == InitEmpty /\ [][NextEmpty]_vars

\* ------------------------------------------------- rolling averages as calls
\* df = engineer.calculate_rolling_averages(df, team_id_col, [col], [window])
RollingAverages ==
    /\ q = NoQuery
    /\ pc = "start"
    /\ \E window \in 1..MaxRollWindow :
        q' = [op |-> "calculate_rolling_averages", window |-> window,
              column |-> calculate_rolling_averages(df, window)]
    /\ QueryFrame

\* df = engineer.calculate_player_rolling_averages(df, [col], [window])
PlayerRollingAverages ==
    /\ q = NoQuery
    /\ \E window \in 1..MaxRollWindow :
        q' = [op |-> "calculate_player_rolling_averages", window |-> window,
              column |-> calculate_player_rolling_averages(df, window)]
    /\ QueryFrame

\* Every table of at most MaxRollRows rows of two teams (players).
InitRolling ==
    /\ \E n \in 0..MaxRollRows : df \in [1..n -> RollRows]
    /\ columns = {"key", "value"}
    /\ date_dtype = NO_DATE_COLUMN
    /\ InitCall

NextRolling == ImportGameFeatures \/ RollingAverages \/ PlayerRollingAverages

SpecRolling == InitRolling /\ [][NextRolling]_vars

\* ------------------------------------------------- threads on an InMemoryCache
\* A thread calls one of set, get, delete, clear_all and reaches "with self.lock".
CallCache(t) ==
    /\ threads[t].at = "idle"
    /\ n_calls < MaxCalls
    /\ n_calls' = n_calls + 1
    /\ \E call \in
            [at : {"waiting"}, op : {"set"}, key : CacheKeys, value : CacheValues]
            \cup [at : {"waiting"}, op : {"get", "delete"}, key : CacheKeys, value : {None}]
            \cup [at : {"waiting"}, op : {"clear_all"}, key : {"none"}, value : {None}] :
        threads' = [threads EXCEPT ![t] = call]
    /\ UNCHANGED <<self_cache, max_size, hits, misses, lock, q>>
    /\ UNCHANGED <<df, columns, date_dtype, include_future_target, pc, cache, i, features, failed_games>>

\* with self.lock: the thread enters when no other thread holds the lock.
AcquireLock(t) ==
    /\ threads[t].at = "waiting"
    /\ lock = FREE
    /\ lock' = t
    /\ threads' = [threads EXCEPT ![t].at = "locked"]
    /\ UNCHANGED <<self_cache, max_size, hits, misses, n_calls, q>>
    /\ UNCHANGED <<df, columns, date_dtype, include_future_target, pc, cache, i, features, failed_games>>

\* What every method body ends with: the call is recorded with the dict it
\* found, the lock is released and the thread is idle again.
ReturnFromCache(t, result) ==
    /\ q' = [op |-> threads[t].op, thread |-> t, key |-> threads[t].key,
             value |-> threads[t].value, before |-> self_cache, result |-> result]
    /\ lock' = FREE
    /\ threads' = [threads EXCEPT ![t] = Idle]
    /\ UNCHANGED <<max_size, n_calls>>
    /\ UNCHANGED <<df, columns, date_dtype, include_future_target, pc, cache, i, features, failed_games>>

\* InMemoryCache.set under the lock.
CacheSet(t) ==
    /\ threads[t].at = "locked"
    /\ threads[t].op = "set"
    /\ self_cache' = InMemoryCache_set(self_cache, max_size, threads[t].key, threads[t].value)
    /\ UNCHANGED <<hits, misses>>
    /\ ReturnFromCache(t, TRUE)

\* InMemoryCache.get under the lock: a hit or a miss.
CacheGetCall(t) ==
    /\ threads[t].at = "locked"
    /\ threads[t].op = "get"
    /\ IF threads[t].key \in KeysOf(self_cache)
       THEN /\ hits' = hits + 1
            /\ misses' = misses
            /\ ReturnFromCache(t, DictGet(self_cache, threads[t].key))
       ELSE /\ misses' = misses + 1
            /\ hits' = hits
            /\ ReturnFromCache(t, None)
    /\ UNCHANGED self_cache

\* InMemoryCache.delete under the lock.
CacheDelete(t) ==
    /\ threads[t].at = "locked"
    /\ threads[t].op = "delete"
    /\ self_cache' = DictDel(self_cache, threads[t].key)
    /\ UNCHANGED <<hits, misses>>
    /\ ReturnFromCache(t, threads[t].key \in KeysOf(self_cache))

\* InMemoryCache.clear_all under the lock.
CacheClearAll(t) ==
    /\ threads[t].at = "locked"
    /\ threads[t].op = "clear_all"
    /\ self_cache' = <<>>
    /\ UNCHANGED <<hits, misses>>
    /\ ReturnFromCache(t, TRUE)

\* InMemoryCache(max_size) for a max_size of at least 1, and idle threads.
InitMemoryCache ==
    /\ df = <<>>
    /\ columns = {}
    /\ date_dtype = NO_DATE_COLUMN
    /\ InitLoop
    /\ self_cache = <<>>
    /\ max_size \in 1..MaxCacheSize
    /\ hits = 0
    /\ misses = 0
    /\ lock = FREE
    /\ threads = [t \in Threads |-> Idle]
    /\ n_calls = 0

NextMemoryCache ==
    \/ \E t \in Threads : CallCache(t)
    \/ \E t \in Threads : AcquireLock(t)
    \/ \E t \in Threads : CacheSet(t)
    \/ \E t \in Threads : CacheGetCall(t)
    \/ \E t \in Threads : CacheDelete(t)
    \/ \E t \in Threads : CacheClearAll(t)

SpecMemoryCache == InitMemoryCache /\ [][NextMemoryCache]_vars

\* ------------------------------------------------------------ a second call
\* The caller keeps the DataFrame returned by create_game_features (and, for
\* the comparison, the index the call built) and calls it again on the same
\* table with the same engineer.
Rerun ==
    /\ pc = "done"
    /\ q = NoQuery
    /\ q' = [op |-> "create_game_features",
             include_future_target |-> include_future_target,
             features |-> features, cache |-> cache, failed_games |-> failed_games]
    /\ pc' = "start"
    /\ UNCHANGED <<df, columns, date_dtype, include_future_target, cache, i, features, failed_games, mem_vars>>

NextRerun ==
    \/ ImportGameFeatures
    \/ BuildCache
    \/ ProcessGame
    \/ Return
    \/ Rerun

SpecRerun == InitQuery /\ [][NextRerun]_vars

\* ------------------------------------------------- the split as a call
\* train_df, val_df, test_df = builder.create_time_based_split(df, "date", ...)
TimeBasedSplit ==
    /\ q = NoQuery
    /\ \E ratios \in SplitRatios :
        /\ ~RatiosRejected(ratios[1], ratios[2], ratios[3])
        /\ \E result \in create_time_based_split(df, ratios[1], ratios[2]) :
            q' = [op |-> "create_time_based_split", raised |-> "none",
                  train_ratio |-> ratios[1], val_ratio |-> ratios[2],
                  test_ratio |-> ratios[3],
                  train |-> result.train, val |-> result.val, test |-> result.test]
    /\ QueryFrame

\* raise ValueError("Ratios must sum to 1.0")
TimeBasedSplitRaises ==
    /\ q = NoQuery
    /\ \E ratios \in SplitRatios :
        /\ RatiosRejected(ratios[1], ratios[2], ratios[3])
        /\ q' = [op |-> "create_time_based_split", raised |-> "ValueError",
                 train_ratio |-> ratios[1], val_ratio |-> ratios[2],
                 test_ratio |-> ratios[3],
                 train |-> <<>>, val |-> <<>>, test |-> <<>>]
    /\ QueryFrame

\* train_df, val_df, test_df = builder.create_random_split(df, ...)
RandomSplit ==
    /\ q = NoQuery
    /\ \E ratios \in SplitRatios :
        /\ ~RandomSplitRejected(df, ratios[1], ratios[2], ratios[3])
        /\ \E result \in create_random_split(df, ratios[1], ratios[2], ratios[3]) :
            q' = [op |-> "create_random_split", raised |-> "none",
                  train_ratio |-> ratios[1], val_ratio |-> ratios[2],
                  test_ratio |-> ratios[3],
                  train |-> result.train, val |-> result.val, test |-> result.test]
    /\ QueryFrame

\* create_random_split leaves with a ValueError: its own, or the one that
\* train_test_split raises and it does not catch.
RandomSplitRaises ==
    /\ q = NoQuery
    /\ \E ratios \in SplitRatios :
        /\ RandomSplitRejected(df, ratios[1], ratios[2], ratios[3])
        /\ q' = [op |-> "create_random_split", raised |-> "ValueError",
                 train_ratio |-> ratios[1], val_ratio |-> ratios[2],
                 test_ratio |-> ratios[3],
                 train |-> <<>>, val |-> <<>>, test |-> <<>>]
    /\ QueryFrame

\* Every table of at most MaxSplitRows rows, in any row order.
InitSplit ==
    /\ \E n \in 0..MaxSplitRows : \E dates \in [1..n -> Days] : df = SplitFrame(dates)
    /\ columns = GameColumns
    /\ date_dtype = DATETIME
    /\ InitCall

NextSplit ==
    \/ TimeBasedSplit
    \/ TimeBasedSplitRaises
    \/ RandomSplit
    \/ RandomSplitRaises

SpecSplit == InitSplit /\ [][NextSplit]_vars

\* ======================================================================
\* Properties
\* ======================================================================

\* The rows of a table that come strictly before a cutoff, in table order.
PriorPart(frame, cutoff) == SelectSeq(frame, LAMBDA r : r.date < cutoff)

\* The table with the scores of every game on or after the cutoff replaced.
Rescore(frame, cutoff, sc) ==
    [k \in 1..Len(frame) |->
        IF frame[k].date >= cutoff
        THEN [frame[k] EXCEPT !.home_team_score = sc[1], !.visitor_team_score = sc[2]]
        ELSE frame[k]]

\* A feature dict without its target columns.
FeatureValues(rec) ==
    [rec EXCEPT !.home_win = "none", !.home_score = "none", !.away_score = "none"]

\* C1 -- No look-ahead leakage.  Every aggregator, public and cached, returns
\* for a cutoff T exactly what it returns on the table reduced to the games
\* dated strictly before T; and every feature value of a row produced by
\* create_game_features is unchanged when the scores of that game and of
\* every game of the same or a later date are changed.
C1_NoLookAhead ==
    /\ q.op = "team_form" =>
        LET p == PriorPart(df, q.date) IN
        /\ q.public = calculate_team_form(p, q.team_id, q.date, q.n_games)
        /\ q.cached = _calculate_team_form_cached(p, q.team_id, q.date,
                          _build_team_games_cache(p), q.n_games)
    /\ q.op = "head_to_head" =>
        LET p == PriorPart(df, q.date) IN
        /\ q.public = calculate_head_to_head(p, q.team_id, q.team2_id, q.date, q.n_games)
        /\ q.cached = _calculate_head_to_head_cached(p, q.team_id, q.team2_id, q.date,
                          _build_team_games_cache(p), q.n_games)
    /\ q.op = "rest_days" =>
        LET p == PriorPart(df, q.date) IN
        /\ q.public = calculate_rest_days(p, q.team_id, q.date)
        /\ q.cached = _calculate_rest_days_cached(p, q.team_id, q.date,
                          _build_team_games_cache(p))
    /\ q.op = "win_streak" =>
        LET p == PriorPart(df, q.date) IN
        /\ q.public \in calculate_win_streak(p, q.team_id, q.date)
        /\ q.cached = _calculate_win_streak_cached(p, q.team_id, q.date,
                          _build_team_games_cache(p))
    /\ q.op = "home_away_splits" =>
        LET p == PriorPart(df, q.date) IN
        /\ q.public = calculate_home_away_splits(p, q.team_id, q.date, q.n_games)
        /\ q.cached = _calculate_home_away_splits_cached(p, q.team_id, q.date,
                          _build_team_games_cache(p), q.n_games)
    /\ \A j \in 1..Len(features) : \A sc \in ScorePairs :
        LET other == Rescore(df, df[j].date, sc) IN
        FeatureValues(features[j]) =
            FeatureValues(FeatureDict(other, _build_team_games_cache(other), j,
                                      include_future_target))

\* C1 witness: the assembly has produced the row of a game whose home team
\* has an earlier game, so the row's own game is one the features must skip.
C1_Witness ==
    /\ pc = "done"
    /\ \E j \in 1..Len(features) :
        /\ features[j].home_rest_days # NO_PREVIOUS_GAME
        /\ features[j].home_win_pct # ZERO

\* The scenario's query: X (and Y) at cutoff day 6 with the default window.
ScenarioQuery(op) ==
    /\ q.op = op
    /\ q.team_id = Scenario.X
    /\ q.date = 6
    /\ q.n_games \in {0, DEFAULT_N_GAMES}

\* C2 -- Scenario of the specification.  On the three-game log, at cutoff day 6:
\* Form(X, window 10) has games_played 2 and win_pct 1/2; HeadToHead(X, Y) has
\* 2 games, 1 win each; Streak(X) is -1; RestDays(X) is 3 (public and cached
\* alike), and the row assembled for the day-6 game carries the same values.
C2_Scenario ==
    /\ (ScenarioQuery("team_form") /\ q.n_games = DEFAULT_N_GAMES) =>
        /\ q.public.games_played = 2 /\ q.public.win_pct = Frac(1, 2)
        /\ q.cached.games_played = 2 /\ q.cached.win_pct = Frac(1, 2)
    /\ (ScenarioQuery("head_to_head") /\ q.team2_id = Scenario.Y
            /\ q.n_games = DEFAULT_N_GAMES) =>
        /\ q.public.h2h_games = 2 /\ q.public.team1_wins = 1 /\ q.public.team2_wins = 1
        /\ q.cached.h2h_games = 2 /\ q.cached.team1_wins = 1 /\ q.cached.team2_wins = 1
    /\ ScenarioQuery("win_streak") => (q.public = -1 /\ q.cached = -1)
    /\ ScenarioQuery("rest_days") => (q.public = 3 /\ q.cached = 3)
    /\ \A j \in 1..Len(features) :
        features[j].date = 6 =>
            /\ features[j].h2h_games = 2
            /\ IF features[j].home_team_id = Scenario.X
               THEN /\ features[j].home_win_pct = Frac(1, 2)
                    /\ features[j].home_streak = -1
                    /\ features[j].home_rest_days = 3
               ELSE /\ features[j].away_win_pct = Frac(1, 2)
                    /\ features[j].away_streak = -1
                    /\ features[j].away_rest_days = 3

\* C2 witness: the streak of X has been queried at cutoff day 6.
C2_Witness == ScenarioQuery("win_streak") /\ q.public = -1 /\ Len(df) = 3

\* The float a fraction stands for: the value of the single division
\* team1_wins / len(h2h_games).
FloatOfFrac(x) == Mean(x[1], x[2])

\* 1 - x in floats, for a win percentage x.
OneMinus(x) ==
    FloatSub([negative |-> FALSE, magnitude |-> FloatOfInt(1)], FloatOfFrac(x))

\* The head-to-head relations between a result and the result of the call with
\* the two teams swapped.
H2HSymmetric(result, swapped) ==
    /\ result.team1_wins + result.team2_wins = result.h2h_games
    /\ result.h2h_games > 0 =>
        /\ swapped.h2h_games = result.h2h_games
        /\ swapped.team1_wins = result.team2_wins
        /\ FloatOfFrac(swapped.team1_win_pct) = OneMinus(result.team1_win_pct)

\* C4 (as claimed) -- Head-to-head symmetry.  For two distinct teams,
\* team1_wins + team2_wins = h2h_games, and when there are games the call with
\* the teams swapped returns the same h2h_games, team1_wins equal to the
\* original team2_wins and a team1_win_pct equal to 1 minus the original
\* team1_win_pct, the subtraction made on the returned floats; for the public
\* and for the cached function.
C4_H2HSymmetry ==
    (q.op = "head_to_head" /\ q.team_id # q.team2_id) =>
        /\ H2HSymmetric(q.public,
               calculate_head_to_head(df, q.team2_id, q.team_id, q.date, q.n_games))
        /\ H2HSymmetric(q.cached,
               _calculate_head_to_head_cached(df, q.team2_id, q.team_id, q.date,
                   _build_team_games_cache(df), q.n_games))

\* The float difference a - b of the floats nearest to two fractions: the two
\* fractions written over their common denominator.
FracDifference(a, b) ==
    LET n == (a[2] * b[2]) \div GCD(a[2], b[2])
    IN  PointDifferential(a[1] * (n \div a[2]), b[1] * (n \div b[2]), n)

RECURSIVE SumOver(_, _, _)
\* The sum of one score column ("own" or "opp") over a set of row positions.
SumOver(rows, team_id, side) ==
    IF rows = {} THEN 0
    ELSE LET k == CHOOSE x \in rows : TRUE
             r == df[k]
             own == IF r.home_team_id = team_id THEN r.home_team_score
                    ELSE r.visitor_team_score
             opp == IF r.home_team_id = team_id THEN r.visitor_team_score
                    ELSE r.home_team_score
         IN  (IF side = "own" THEN own ELSE opp) + SumOver(rows \ {k}, team_id, side)

\* The positions of the last n rows of the team dated before the cutoff.
LastRowsBefore(team_id, cutoff, n) ==
    LET prior == {k \in 1..Len(df) : PlaysIn(df[k], team_id) /\ df[k].date < cutoff}
    IN  {k \in prior : Cardinality({m \in prior : m > k}) < n}

\* The form statistics a result must carry for the games it counts.
FormStatsCorrect(result, team_id, cutoff) ==
    LET n    == result.games_played
        rows == LastRowsBefore(team_id, cutoff, n)
        wins == Cardinality({k \in rows :
                    (df[k].home_team_id = team_id
                        /\ df[k].home_team_score > df[k].visitor_team_score)
                    \/ (df[k].home_team_id # team_id
                        /\ df[k].visitor_team_score > df[k].home_team_score)})
    IN  n > 0 =>
        /\ Cardinality(rows) = n
        /\ result.win_pct = Frac(wins, n)
        /\ 0 <= result.win_pct[1] /\ result.win_pct[1] <= result.win_pct[2]
        /\ result.avg_points_scored = Frac(SumOver(rows, team_id, "own"), n)
        /\ result.avg_points_allowed = Frac(SumOver(rows, team_id, "opp"), n)
        /\ result.avg_point_differential =
               FracDifference(result.avg_points_scored, result.avg_points_allowed)

\* C6 -- Form statistics.  Over the games the form window counts, a game is a
\* win only when the team's own score (home score as home team, visitor score
\* as visitor) is strictly greater than the opponent's, so a tie is no win;
\* win_pct = wins / games_played lies in [0, 1]; points scored and allowed are
\* taken from the side the team played; avg_point_differential =
\* avg_points_scored - avg_points_allowed.  For the public and the cached function.
C6_FormStatistics ==
    q.op = "team_form" =>
        /\ FormStatsCorrect(q.public, q.team_id, q.date)
        /\ FormStatsCorrect(q.cached, q.team_id, q.date)

\* C6 witness: a form call that counts two games of the team, one of them tied
\* and one played as visitor.
C6_Witness ==
    /\ q.op = "team_form"
    /\ q.public.games_played = 2
    /\ q.cached.games_played = 2
    /\ \E k \in 1..Len(df) :
        /\ PlaysIn(df[k], q.team_id) /\ df[k].date < q.date
        /\ df[k].home_team_score = df[k].visitor_team_score
    /\ \E k \in 1..Len(df) :
        /\ df[k].visitor_team_id = q.team_id /\ df[k].date < q.date
        /\ df[k].home_team_score # df[k].visitor_team_score

\* The streak rule for a history of outcomes, most recent first (TRUE = win):
\* +k when the k most recent are wins and the next is not a win or is absent,
\* -k when the k most recent are non-wins and the next is a win or is absent,
\* 0 for an empty history.
StreakRule(value, outcomes) ==
    LET n == Len(outcomes)
        k == Abs(value)
    IN  IF n = 0 THEN value = 0
        ELSE /\ 1 <= k /\ k <= n
             /\ \A m \in 1..k : outcomes[m] = (value > 0)
             /\ k < n => outcomes[k + 1] # (value > 0)

\* The histories of a team before a cutoff, most recent first: every order of
\* its earlier games by non-increasing date.
RecentFirstOutcomes(team_id, cutoff) ==
    LET prior  == {k \in 1..Len(df) : PlaysIn(df[k], team_id) /\ df[k].date < cutoff}
        n      == Cardinality(prior)
        orders == {p \in [1..n -> prior] :
                      /\ \A a, b \in 1..n : a # b => p[a] # p[b]
                      /\ \A a \in 1..n : a < n => df[p[a]].date >= df[p[a + 1]].date}
    IN  {[m \in 1..n |->
            IF df[p[m]].home_team_id = team_id
            THEN df[p[m]].home_team_score > df[p[m]].visitor_team_score
            ELSE df[p[m]].visitor_team_score > df[p[m]].home_team_score] : p \in orders}

\* C3 -- Streak.  For every team and cutoff the streak follows the streak rule
\* on the team's games before the cutoff taken most recent first (0 when there
\* is none), for the public and for the cached function.
C3_StreakRule ==
    q.op = "win_streak" =>
        /\ \E h \in RecentFirstOutcomes(q.team_id, q.date) : StreakRule(q.public, h)
        /\ \E h \in RecentFirstOutcomes(q.team_id, q.date) : StreakRule(q.cached, h)

\* C5 -- Window saturation of form.  games_played is at most the window size k,
\* and the window k + 1 never counts fewer games than the window k, for the
\* public and for the cached function, k = 0 included.
C5_WindowSaturation ==
    q.op = "team_form" =>
        /\ q.public.games_played <= q.n_games
        /\ q.cached.games_played <= q.n_games
        /\ calculate_team_form(df, q.team_id, q.date, q.n_games + 1).games_played
               >= q.public.games_played
        /\ _calculate_team_form_cached(df, q.team_id, q.date,
               _build_team_games_cache(df), q.n_games + 1).games_played
               >= q.cached.games_played

\* C7 -- Output order and multiplicity.  The records returned by
\* create_game_features are in non-decreasing date order, at most one per input
\* game, each carrying the id, date and team ids of its game, also when the
\* input rows are not sorted by date.
C7_OutputOrder ==
    pc = "done" =>
        /\ \A a, b \in 1..Len(features) : a < b => features[a].date <= features[b].date
        /\ \A a, b \in 1..Len(features) :
               a # b => features[a].game_id # features[b].game_id
        /\ \A a \in 1..Len(features) : \E k \in 1..Len(df) :
               /\ features[a].game_id = df[k].id
               /\ features[a].date = df[k].date
               /\ features[a].home_team_id = df[k].home_team_id
               /\ features[a].away_team_id = df[k].visitor_team_id

\* C8 -- Participant index invariant.  Once the index is built, the sequence
\* of every team holds exactly the games the team played in, each once, in
\* ascending order of game date, whether the input is sorted or not.
C8_IndexInvariant ==
    pc \in {"loop", "done"} =>
        \A team_id \in Teams :
            LET s == CacheGet(cache, team_id) IN
            /\ \A k \in 1..Len(df) :
                   Cardinality({m \in 1..Len(s) : s[m] = k})
                       = IF PlaysIn(df[k], team_id) THEN 1 ELSE 0
            /\ \A m \in 1..Len(s) : s[m] \in 1..Len(df)
            /\ \A a, b \in 1..Len(s) : a < b => df[s[a]].date <= df[s[b]].date

\* C9 -- Standalone queries agree with assembly.  Every public aggregator
\* returns exactly the value of the cached function for the same arguments.
C9_PublicEqualsCached ==
    q.op # "none" => q.public = q.cached

\* The number of games of a team dated before a day.
PriorCount(team_id, day) ==
    Cardinality({k \in 1..Len(df) : PlaysIn(df[k], team_id) /\ df[k].date < day})

\* C10 (as claimed) -- Minimum-history filter.  For a threshold
\* min_history_games, a record is emitted for a game exactly when both of its
\* teams have at least that many games before the game's date.
C10_MinHistoryFilter ==
    pc = "done" =>
        \A min_history_games \in 0..MaxGames : \A k \in 1..Len(df) :
            (\E a \in 1..Len(features) : features[a].game_id = df[k].id)
                <=> /\ PriorCount(df[k].home_team_id, df[k].date) >= min_history_games
                    /\ PriorCount(df[k].visitor_team_id, df[k].date) >= min_history_games

\* A form result of a team without history: no game, 0.0 everywhere.
IsColdForm(result) ==
    /\ result.games_played = 0
    /\ result.win_pct = ZERO
    /\ result.avg_points_scored = ZERO
    /\ result.avg_points_allowed = ZERO
    /\ result.avg_point_differential = [negative |-> FALSE, magnitude |-> BigZero]

\* A head-to-head result of a pair without history.
IsColdH2H(result) ==
    /\ result.h2h_games = 0
    /\ result.team1_wins = 0
    /\ result.team2_wins = 0
    /\ result.team1_win_pct = ZERO

\* The number of games before a day in which both teams take part.
SharedPriorCount(team1_id, team2_id, day) ==
    Cardinality({k \in 1..Len(df) :
        PlaysIn(df[k], team1_id) /\ PlaysIn(df[k], team2_id) /\ df[k].date < day})

\* C12 -- Cold start is data, not an error.  For a team with no game before
\* the cutoff (a team absent from the table included) the form result has
\* games_played 0 and 0.0 in every statistic and the streak is 0; for a pair
\* with no shared game before the cutoff the head-to-head result has 0 games,
\* 0 wins on both sides and win pct 0.0; public and cached function alike, and
\* every call returns a value.
C12_ColdStart ==
    /\ (q.op = "team_form" /\ PriorCount(q.team_id, q.date) = 0) =>
        (IsColdForm(q.public) /\ IsColdForm(q.cached))
    /\ (q.op = "win_streak" /\ PriorCount(q.team_id, q.date) = 0) =>
        (q.public = 0 /\ q.cached = 0)
    /\ (q.op = "head_to_head" /\ SharedPriorCount(q.team_id, q.team2_id, q.date) = 0) =>
        (IsColdH2H(q.public) /\ IsColdH2H(q.cached))

\* C12 witness: the form of a team is asked at the date of its first game,
\* with the default window, on a table of two games.
C12_Witness ==
    /\ q.op = "team_form"
    /\ q.n_games = DEFAULT_N_GAMES
    /\ Len(df) >= 2
    /\ PriorCount(q.team_id, q.date) = 0
    /\ \E k \in 1..Len(df) : PlaysIn(df[k], q.team_id) /\ df[k].date = q.date
    /\ q.public.games_played = 0

\* The rest days the rule gives a team at a game date: the days since the
\* latest of its games dated strictly before, 999 when there is none.
ExpectedRestDays(team_id, game_date) ==
    LET dates == {df[k].date : k \in {m \in 1..Len(df) :
                     PlaysIn(df[m], team_id) /\ df[m].date < game_date}}
    IN  IF dates = {} THEN 999
        ELSE game_date - (CHOOSE d \in dates : \A e \in dates : e <= d)

\* C13 -- Rest days.  For every team and game date the rest days are the
\* number of days since the team's most recent game strictly before the date
\* (so at least 0), 999 when there is no earlier game, for the public and the
\* cached function and in every assembled row; and the back-to-back flag is
\* set exactly when the rest days are 1.
C13_RestDays ==
    /\ q.op = "rest_days" =>
        /\ q.public = ExpectedRestDays(q.team_id, q.date)
        /\ q.cached = ExpectedRestDays(q.team_id, q.date)
        /\ q.public >= 0 /\ q.cached >= 0
        /\ is_back_to_back(df, q.team_id, q.date) <=> (q.public = 1)
    /\ \A j \in 1..Len(features) :
        /\ features[j].home_rest_days = ExpectedRestDays(df[j].home_team_id, df[j].date)
        /\ features[j].away_rest_days = ExpectedRestDays(df[j].visitor_team_id, df[j].date)
        /\ (features[j].home_b2b = 1) <=> (features[j].home_rest_days = 1)
        /\ (features[j].away_b2b = 1) <=> (features[j].away_rest_days = 1)

\* The last n of a set of row positions, in row order.
LastOf(rows, n) == {k \in rows : Cardinality({m \in rows : m > k}) < n}

\* One side of a home/away split result: the games counted are the last
\* n_games of the partition and the win pct is taken over them alone.
SplitSideCorrect(games, win_pct, partition, n_games, home_side) ==
    LET counted == LastOf(partition, n_games)
        wins    == Cardinality({k \in counted :
                       IF home_side
                       THEN df[k].home_team_score > df[k].visitor_team_score
                       ELSE df[k].visitor_team_score > df[k].home_team_score})
    IN  /\ games = Cardinality(counted)
        /\ games <= n_games
        /\ win_pct = IF games = 0 THEN ZERO ELSE Frac(wins, games)

SplitCorrect(result, team_id, cutoff, n_games) ==
    LET home == {k \in 1..Len(df) : df[k].home_team_id = team_id /\ df[k].date < cutoff}
        away == {k \in 1..Len(df) : df[k].visitor_team_id = team_id /\ df[k].date < cutoff}
    IN  /\ SplitSideCorrect(result.home_games, result.home_win_pct, home, n_games, TRUE)
        /\ SplitSideCorrect(result.away_games, result.away_win_pct, away, n_games, FALSE)

\* C14 -- Home/away split.  The team's games before the cutoff are split into
\* those played as home and those played as visitor; home_games and
\* home_win_pct are taken over the last n_games home games, away_games and
\* away_win_pct over the last n_games away games, each window on its own, so
\* each count is at most n_games; an empty partition gives 0 games and 0.0.
\* For the public and the cached function.
C14_HomeAwaySplit ==
    q.op = "home_away_splits" =>
        /\ SplitCorrect(q.public, q.team_id, q.date, q.n_games)
        /\ SplitCorrect(q.cached, q.team_id, q.date, q.n_games)

\* s is a subsequence of t: its items appear in t in the same relative order.
IsSubsequence(s, t) ==
    \E f \in [1..Len(s) -> 1..Len(t)] :
        /\ \A a, b \in 1..Len(s) : a < b => f[a] < f[b]
        /\ \A a \in 1..Len(s) : t[f[a]] = s[a]

\* The sequence of the pair in the index: sorted(team1_games & team2_games).
PairSequence(index, team1_id, team2_id) ==
    SortedIntersection(CacheGet(index, team1_id), CacheGet(index, team2_id))

\* A head-to-head result counts exactly the last n_games games of the pair
\* before the cutoff.
PairCountCorrect(result, team1_id, team2_id, cutoff, n_games) ==
    LET pair    == {k \in 1..Len(df) :
                       /\ {df[k].home_team_id, df[k].visitor_team_id} = {team1_id, team2_id}
                       /\ df[k].date < cutoff}
        counted == LastOf(pair, n_games)
        wins    == Cardinality({k \in counted :
                       \/ (df[k].home_team_id = team1_id
                            /\ df[k].home_team_score > df[k].visitor_team_score)
                       \/ (df[k].home_team_id # team1_id
                            /\ ~(df[k].home_team_score > df[k].visitor_team_score))})
    IN  /\ result.h2h_games = Cardinality(counted)
        /\ result.team1_wins = wins

\* C15 -- Pair membership and order.  For two distinct teams and a cutoff the
\* head-to-head functions count exactly the games before the cutoff played
\* between the two (either side at home), limited to the last n_games of them;
\* the pair's sequence in the index holds only games between the two, is a
\* subsequence of both teams' sequences, and no game against a third team is
\* counted.
C15_PairMembership ==
    (q.op = "head_to_head" /\ q.team_id # q.team2_id) =>
        LET index == _build_team_games_cache(df)
            pairs == PairSequence(index, q.team_id, q.team2_id)
        IN  /\ PairCountCorrect(q.public, q.team_id, q.team2_id, q.date, q.n_games)
            /\ PairCountCorrect(q.cached, q.team_id, q.team2_id, q.date, q.n_games)
            /\ IsSubsequence(pairs, CacheGet(index, q.team_id))
            /\ IsSubsequence(pairs, CacheGet(index, q.team2_id))
            /\ \A m \in 1..Len(pairs) :
                   {df[pairs[m]].home_team_id, df[pairs[m]].visitor_team_id}
                       = {q.team_id, q.team2_id}

\* A log satisfies the event invariants: no negative score, two different
\* teams in every game, no id twice.
IsValidLog(frame) ==
    /\ \A k \in 1..Len(frame) :
        /\ frame[k].home_team_score >= 0 /\ frame[k].visitor_team_score >= 0
        /\ frame[k].home_team_id # frame[k].visitor_team_id
    /\ \A a, b \in 1..Len(frame) : a # b => frame[a].id # frame[b].id

\* C11 -- Validation is fatal and comes first.  When the log has a negative
\* score, a game between a team and itself or a repeated id (the validation
\* of the cleaning step has reported an issue, or the table handed on still
\* breaks an invariant), the run stops there: no index is built and no feature
\* record is produced for any of its games.
C11_ValidationFatal ==
    ((q.op = "clean_game_data" /\ q.report.issues # <<>>)
        \/ (columns = RawColumns /\ ~IsValidLog(df))) =>
        (pc \notin {"loop", "done"} /\ cache = <<>> /\ features = <<>>)

\* The positions among the first n rows whose feature computation does not raise.
Succeeding(n) == {j \in 1..n : ~RaisesInLoop(df, date_dtype, cache, j)}

\* C16 -- Failure isolation in assembly.  create_game_features never leaves
\* with an exception, whatever the log; no failure of a row's feature
\* computation ends it: the call goes on to the next row and returns, the
\* failing rows are counted, and the records of the other rows are all there,
\* in row order, each with the values computed for its row.
C16_FailureIsolation ==
    /\ pc # "KeyError"
    /\ pc \in {"loop", "done"} =>
        LET ok == Succeeding(i - 1) IN
        /\ failed_games = (i - 1) - Cardinality(ok)
        /\ Len(features) = Cardinality(ok)
        /\ \A j \in ok :
               features[Cardinality({m \in ok : m <= j})]
                   = FeatureDict(df, cache, j, include_future_target)
    /\ pc = "done" => i = Len(df) + 1

\* C17 -- Frozen index, no side effects.  create_game_features never changes
\* the caller's DataFrame, and from the moment _build_team_games_cache has
\* returned no step of the loop adds, removes or reorders an entry of the
\* team-games index.
C17_FrozenIndex ==
    [][/\ df' = df
       /\ pc \in {"loop", "done"} => cache' = cache]_vars

\* C17 witness: every row of a three-game table has been processed and the
\* index is still the one built from the table.
C17_Witness ==
    /\ pc = "done"
    /\ Len(features) = 3
    /\ cache = _build_team_games_cache(df)
    /\ \E team_id \in Teams : Len(CacheGet(cache, team_id)) >= 2

\* C18 -- Idempotence of the pipeline.  A second call of create_game_features
\* on the same table (same include_future_target) builds the same index and
\* returns the same records in the same order as the first call.
C18_Idempotent ==
    q.op = "create_game_features" =>
        /\ pc \in {"loop", "done"} => cache = q.cache
        /\ (pc = "done" /\ include_future_target = q.include_future_target) =>
            /\ features = q.features
            /\ failed_games = q.failed_games

\* C18 witness: the second call on a two-game table has returned.
C18_Witness ==
    /\ q.op = "create_game_features"
    /\ pc = "done"
    /\ include_future_target = q.include_future_target
    /\ Len(q.features) = 2
    /\ Len(features) = 2

\* Every row of s is dated no later than every row of t.
NotAfter(s, t) ==
    \A a \in 1..Len(s) : \A b \in 1..Len(t) : s[a].date <= t[b].date

\* C19 -- The time-based split prevents leakage.  For every table, in any row
\* order, and accepted ratios, every train row is dated no later than every
\* validation row and every validation row no later than every test row (and
\* so every train row no later than every test row).
C19_SplitOrder ==
    (q.op = "create_time_based_split" /\ q.raised = "none") =>
        /\ NotAfter(q.train, q.val)
        /\ NotAfter(q.val, q.test)
        /\ NotAfter(q.train, q.test)

\* C19 witness: a table whose rows are not in date order has been split into
\* three non-empty parts.
C19_Witness ==
    /\ q.op = "create_time_based_split"
    /\ q.raised = "none"
    /\ ~IsSortedByDate(df)
    /\ q.train # <<>> /\ q.val # <<>> /\ q.test # <<>>
    /\ q.train[1].date < q.test[Len(q.test)].date

\* The ids of the rows of a table.
IdsOf(frame) == {frame[k].id : k \in 1..Len(frame)}

\* C20 -- The time-based split is a partition.  train, val and test are
\* pairwise disjoint and together hold every input row exactly once;
\* len(train) = floor(n * train_ratio), len(train) + len(val) =
\* floor(n * (train_ratio + val_ratio)), and test holds the remaining rows.
C20_SplitPartition ==
    (q.op = "create_time_based_split" /\ q.raised = "none") =>
        LET n == Len(df) IN
        /\ IdsOf(q.train) \cap IdsOf(q.val) = {}
        /\ IdsOf(q.train) \cap IdsOf(q.test) = {}
        /\ IdsOf(q.val) \cap IdsOf(q.test) = {}
        /\ Len(q.train) + Len(q.val) + Len(q.test) = n
        /\ \A k \in 1..n :
               Cardinality({m \in 1..n : (q.train \o q.val \o q.test)[m] = df[k]}) = 1
        /\ Len(q.train) = (n * q.train_ratio) \div 100
        /\ Len(q.train) + Len(q.val) = (n * (q.train_ratio + q.val_ratio)) \div 100
        /\ Len(q.test) = n - (n * (q.train_ratio + q.val_ratio)) \div 100

\* C21 -- Split ratio validation.  create_time_based_split and
\* create_random_split raise ValueError, and return no split, whenever
\* train_ratio + val_ratio + test_ratio differs from 1.0 by 0.01 or more, and
\* never raise ValueError when the ratios sum to exactly 1.0.
C21_RatioValidation ==
    (q.op \in {"create_time_based_split", "create_random_split"}) =>
        LET sum == q.train_ratio + q.val_ratio + q.test_ratio IN
        /\ (Abs(sum - 100) >= 1) =>
               (q.raised = "ValueError" /\ q.train = <<>> /\ q.val = <<>> /\ q.test = <<>>)
        /\ (sum = 100) => (q.raised # "ValueError")

\* The positions of the rows that clean_game_data has to keep: the scores are
\* present and non-negative, no earlier row with such scores has the same id,
\* and the status is "Final" when there is a status column.
KeptPositions(frame, cols) ==
    {k \in 1..Len(frame) :
        /\ ScoresNonNegative(frame[k])
        /\ ~\E m \in 1..(k - 1) : ScoresNonNegative(frame[m]) /\ frame[m].id = frame[k].id
        /\ ("status" \in cols) => frame[k].status = "Final"}

\* The rows of a table at the given positions, in table order.
RowsAt(frame, positions) ==
    LET F[k \in 0..Len(frame)] ==
            IF k = 0 THEN <<>>
            ELSE IF k \in positions THEN Append(F[k - 1], frame[k]) ELSE F[k - 1]
    IN  F[Len(frame)]

\* C22 -- clean_game_data postcondition.  The returned rows are a subset of
\* the input rows; every home and visitor score in them is present and >= 0;
\* no game id occurs twice, the row kept for an id being its first occurrence
\* among the rows with valid scores; every status is "Final" when a status
\* column exists; the input table is not modified.
C22_CleanPostcondition ==
    (q.op = "clean_game_data") =>
        /\ q.returned = RowsAt(q.input, KeptPositions(q.input, columns))
        /\ IsSubsequence(q.returned, q.input)
        /\ \A k \in 1..Len(q.returned) :
               /\ ScoresNonNegative(q.returned[k])
               /\ ("status" \in columns) => q.returned[k].status = "Final"
               /\ \A m \in 1..Len(q.returned) :
                      q.returned[m].id = q.returned[k].id => m = k
        /\ df = q.input

\* C22 witness: a table in which the first row of an id has a missing score,
\* the second row of that id is valid and kept, and a third row is dropped as
\* unfinished.
C22_Witness ==
    /\ q.op = "clean_game_data"
    /\ "status" \in columns
    /\ Len(q.input) = 3
    /\ q.input[1].id = q.input[2].id
    /\ q.input[1].home_team_score = NaN
    /\ q.input[3].status = "In Progress"
    /\ q.returned = <<q.input[2]>>

\* C23 -- Empty log handling.  calculate_team_form called on an empty game
\* table (no rows and no columns) returns the zero record with
\* games_played = 0 instead of raising.
C23_EmptyLogHandling ==
    (q.op = "calculate_team_form" /\ df = <<>> /\ columns = {}) =>
        /\ q.raised = "none"
        /\ q.result = EmptyForm

\* The row of the table that a feature record was computed for.
GameOf(rec) == CHOOSE r \in {df[k] : k \in 1..Len(df)} : r.id = rec.game_id

\* C24 -- Outcome label.  With include_future_target = True every emitted
\* record carries home_win = 1 exactly when the game's home score is strictly
\* greater than its visitor score (0 otherwise, ties included) together with
\* that game's own home_score and away_score; with include_future_target =
\* False no record carries home_win, home_score or away_score; and the feature
\* values of a record are the same in both modes.
C24_OutcomeLabel ==
    /\ \A k \in 1..Len(features) :
           LET rec == features[k]
               game == GameOf(rec)
           IN  IF include_future_target
               THEN /\ rec.home_win \in {0, 1}
                    /\ rec.home_win = 1 <=> game.home_team_score > game.visitor_team_score
                    /\ rec.home_score = game.home_team_score
                    /\ rec.away_score = game.visitor_team_score
               ELSE /\ rec.home_win = "none"
                    /\ rec.home_score = "none"
                    /\ rec.away_score = "none"
    /\ (q.op = "create_game_features" /\ pc = "done"
            /\ include_future_target # q.include_future_target) =>
           /\ Len(features) = Len(q.features)
           /\ \A k \in 1..Len(features) :
                  FeatureValues(features[k]) = FeatureValues(q.features[k])

\* C24 witness: the same two-game table, one game tied and one won by the
\* visitor, has been processed without and then with the target columns.
C24_Witness ==
    /\ q.op = "create_game_features"
    /\ pc = "done"
    /\ ~q.include_future_target
    /\ include_future_target
    /\ Len(features) = 2
    /\ features[1].home_score = features[1].away_score
    /\ features[1].home_win = 0
    /\ features[2].home_score < features[2].away_score

\* floor(log2(n)) for n >= 1.
Log2Floor(n) == CHOOSE k \in 0..n : 2^k <= n /\ n < 2^(k + 1)

\* The rows already processed by the loop in which the team plays: the number
\* of point-in-time queries of one aggregator made so far for the team.
QueriesMade(team_id) ==
    Cardinality({k \in 1..(i - 1) : k <= Len(df) /\ PlaysIn(df[k], team_id)})

\* C25 -- Performance contract.  The index is built once per log, and each
\* point-in-time query of a team examines a number of index entries that is
\* logarithmic in the team's history (binary search: at most
\* floor(log2(L)) + 1 of the L entries) or amortised constant (monotonic
\* pointer: at most L + Q entries over the Q queries of the run), not every
\* game of the team.
C25_PerformanceContract ==
    (pc \in {"loop", "done"}) =>
        \A team_id \in Teams :
            LET L == Len(CacheGet(cache, team_id))
                Q == QueriesMade(team_id)
            IN  (Q >= 1) =>
                    \/ EntriesExamined(cache, team_id) <= Log2Floor(L) + 1
                    \/ Q * EntriesExamined(cache, team_id) <= L + Q

\* The games of the pair dated before the cutoff in which the first team's
\* score is strictly greater than the second team's.
StrictWins(team1_id, team2_id, cutoff) ==
    Cardinality({k \in 1..Len(df) :
        /\ PlaysIn(df[k], team1_id) /\ PlaysIn(df[k], team2_id)
        /\ df[k].date < cutoff
        /\ TeamScore(df[k], team1_id) > TeamScore(df[k], team2_id)})

\* A head-to-head result counts the wins of both teams by the strict rule.
StrictWinCounts(result, team1_id, team2_id, cutoff) ==
    /\ result.team1_wins = StrictWins(team1_id, team2_id, cutoff)
    /\ result.team2_wins = StrictWins(team2_id, team1_id, cutoff)

\* C26 -- One win rule everywhere.  In head-to-head, team1_wins is the number
\* of windowed games of the pair in which team1's score is strictly greater
\* than team2's, and team2_wins the number in which team2's score is strictly
\* greater: a game with equal scores is credited to neither team.  Stated for
\* the calls whose window holds every earlier game of the pair, so that the
\* windowed games are known whatever the row order.
C26_OneWinRule ==
    (q.op = "head_to_head" /\ q.team_id # q.team2_id
        /\ SharedPriorCount(q.team_id, q.team2_id, q.date) <= q.n_games) =>
        /\ StrictWinCounts(q.public, q.team_id, q.team2_id, q.date)
        /\ StrictWinCounts(q.cached, q.team_id, q.team2_id, q.date)

\* The table with its rows in the order given by a permutation of the positions.
Reordered(frame, p) == [k \in 1..Len(frame) |-> frame[p[k]]]

\* The feature values that create_game_features computes for the row at
\* position k of a table.
ValuesFor(frame, k) ==
    FeatureValues(FeatureDict(frame, _build_team_games_cache(frame), k, include_future_target))

\* C27 -- Input-order independence of values.  The feature values that
\* create_game_features computes for a game (form, head-to-head, rest days,
\* streak, splits) are the same whatever the order of the rows of the input
\* table.
C27_OrderIndependence ==
    (pc = "done") =>
        \A p \in Permutations(1..Len(df)) :
            \A k \in 1..Len(features) :
                \A m \in 1..Len(df) :
                    (Reordered(df, p)[m].id = features[k].game_id) =>
                        ValuesFor(Reordered(df, p), m) = FeatureValues(features[k])

\* The values a past-only rolling average of row k can take: the means of the
\* sets of at most `window` rows of the same key that come strictly before
\* row k (no value when the set is empty).
PastMeans(frame, k, window) ==
    {MeanOf(frame, SelectSeq([m \in 1..(k - 1) |-> m], LAMBDA m : m \in S)) :
        S \in {T \in SUBSET {m \in 1..(k - 1) : frame[m].key = frame[k].key} :
                  Cardinality(T) <= window}}

\* C28 -- Rolling averages use only the past.  Every rolling-average value
\* attached to a row, by calculate_rolling_averages (per team) and by
\* calculate_player_rolling_averages (per player), is the mean of at most
\* `window` rows of the same team/player that come strictly before that row.
C28_RollingUsesPast ==
    (q.op \in {"calculate_rolling_averages", "calculate_player_rolling_averages"}) =>
        \A k \in 1..Len(df) : q.column[k] \in PastMeans(df, k, q.window)

\* C29 -- InMemoryCache capacity.  After any sequence of set, get, delete and
\* clear_all calls, issued by any number of threads in any interleaving, the
\* cache never holds more than max_size entries (for max_size >= 1).
C29_CacheCapacity ==
    (max_size >= 1) =>
        /\ Len(self_cache) <= max_size
        /\ Cardinality(KeysOf(self_cache)) = Len(self_cache)

\* C29 witness: a set of a new key found the cache full and has returned,
\* while the other thread is waiting for the lock with a set of its own.
C29_Witness ==
    /\ q.op = "set"
    /\ Len(q.before) = max_size
    /\ q.key \notin KeysOf(q.before)
    /\ Len(self_cache) = max_size
    /\ \E t \in Threads : t # q.thread /\ threads[t].at = "waiting" /\ threads[t].op = "set"

\* C30 -- InMemoryCache eviction only on growth.  set(key, value) removes an
\* entry only when the cache already holds max_size entries and key is not
\* yet present, and then removes exactly the oldest-inserted entry; a set on a
\* key that is already present only replaces that key's value and leaves every
\* other entry in the cache.
C30_EvictionOnlyOnGrowth ==
    (q.op = "set") =>
        IF q.key \in KeysOf(q.before)
        THEN self_cache = DictSet(q.before, q.key, q.value)
        ELSE IF Len(q.before) >= max_size
             THEN self_cache = Append(Tail(q.before), [key |-> q.key, value |-> q.value])
             ELSE self_cache = Append(q.before, [key |-> q.key, value |-> q.value])
====
